---- MODULE Spec2Model ----
(***************************************************************************)
(* Crawl orchestration and progress ledger of the truyenfull scraper:      *)
(* scraper/spiders/truyenfull.py (TruyenfullSpider) and scraper/utils.py   *)
(* (ProgressTracker).                                                      *)
(***************************************************************************)
EXTENDS Integers, Sequences, FiniteSets, TLC

\* ------------------------------------------------------------------ bounds
MaxChapterNum == 2      \* plain chapter numbers on the site are 1..MaxChapterNum
MaxLinks == 2           \* raw chapter anchors on all pages of a story together
MaxPageNum == 2         \* chapter-list page numbers a story page can link
MaxLimit == 1           \* chapters_limit ranges over 0..MaxLimit
MaxRuns == 2            \* runs of the same job, one after the other
MaxJobs == 2            \* job ids
MaxStories == 2         \* story urls known to the ledger
MaxOps == 1             \* ledger operations per concurrent worker
MaxWorkers == 2         \* processes that share the progress directory
MaxNavLinks == 2        \* links inside ul.pagination of one listing page
MaxCalls == 2           \* ledger calls made one after the other
MaxSeconds == 2         \* seconds a Retry-After header asks for
MaxDelay == 1           \* seconds the scheduler holds a retry back
MaxBatch == 5           \* chapter requests one story yields in a category crawl
MaxSyncEnd == 3         \* chapter numbers sync_story can be asked for: 0..MaxSyncEnd
MaxListLen == 2         \* story ids in the list file of sync_from_list

\* ------------------------------------------------------- program constants
MAX_CHAPTERS_PER_STORY == 200

\* self.max_stories = int(max_stories) if max_stories else 10
DEFAULT_MAX_STORIES == 10

\* settings.py
RETRY_TIMES == 5

RETRY_HTTP_CODES == {500, 502, 503, 504, 522, 524, 408}

CONCURRENT_REQUESTS_PER_DOMAIN == 4

CONCURRENT_REQUESTS == 8

\* ------------------------------------------------------------ small helpers
Min(a, b) == IF a <= b THEN a ELSE b

SetMax(S) == CHOOSE m \in S : \A x \in S : x <= m

Take(seq, n) == SubSeq(seq, 1, Min(n, Len(seq)))

Range(seq) == {seq[i] : i \in 1..Len(seq)}

RECURSIVE SeqsUpTo(_, _)
SeqsUpTo(S, n) ==
    IF n = 0 THEN {<<>>}
    ELSE LET shorter == SeqsUpTo(S, n - 1)
         IN  shorter \cup {Append(q, x) : q \in shorter, x \in S}

Count(seq, x) == Cardinality({i \in 1..Len(seq) : seq[i] = x})

\* ---------------------------------------------------------------- urls
\* A chapter url is <story>/<pre>chuong-<digits>/ ; pre is "/" when the word
\* chuong starts a path segment and "-" when it follows a volume prefix
\* (<story>/quyen-1-chuong-<digits>/).
PlainUrl(n) == [pre |-> "/", digits |-> <<n>>]

PaddedUrl(n) == [pre |-> "/", digits |-> <<0, n>>]

VolumeUrl(n) == [pre |-> "-", digits |-> <<n>>]

PlainUrls == {PlainUrl(n) : n \in 1..MaxChapterNum}

ChapterUrls == PlainUrls \cup {PaddedUrl(1), VolumeUrl(1)}

\* <story>/chuong-mo-dau/ : no digits after the word chuong
UnnumberedUrl == [pre |-> "/", digits |-> <<>>]

\* <story>/trang-2/#list-chapter of a story whose own slug holds "/chuong-":
\* a list-page link that the chapter selectors pick up; pre records the
\* /trang- path segment
ListPageUrl == [pre |-> "/trang/", digits |-> <<>>]

\* what the anchors of a story page can point to
FetchUrls == ChapterUrls \cup {UnnumberedUrl, ListPageUrl}

NoUrl == [pre |-> "", digits |-> <<>>]

StoryUrls == 1..MaxStories

JobIds == 1..MaxJobs

TheStory == 1

TheJob == 1

RECURSIVE DigitsToInt(_)
DigitsToInt(d) ==
    IF d = <<>> THEN 0
    ELSE 10 * DigitsToInt(SubSeq(d, 1, Len(d) - 1)) + d[Len(d)]

\* re.search(r"chuong-?(\d+)", url); int(group 1), 0 without a match
extract_num(url) == IF url.digits = <<>> THEN 0 ELSE DigitsToInt(url.digits)

\* "/chuong-" in url
HasSlashChuong(url) == url.pre \in {"/", "/trang/"}

\* "/trang-" in url.lower()
HasSlashTrang(url) == url.pre = "/trang/"

\* ------------------------------------------------ chapter-link extraction
\* for a in anchors: if url in seen: continue -- the first occurrence of
\* every url, in page order
Dedupe(seq) ==
    LET first == SelectSeq([i \in 1..Len(seq) |-> i],
                           LAMBDA i : \A j \in 1..i - 1 : seq[j] # seq[i])
    IN  [k \in 1..Len(first) |-> seq[first[k]]]

\* list.sort(key=...) / sorted(..., key=...): stable, ascending; keys[i] is
\* the sort key of seq[i].  SortSeq is an insertion sort that moves an
\* element left only past elements that compare greater, so elements with
\* equal keys keep their order.
SortKeyed(seq, keys) ==
    LET sorted == SortSeq([i \in 1..Len(seq) |-> <<keys[i], seq[i]>>],
                          LAMBDA a, b : a[1] < b[1])
    IN  [k \in 1..Len(seq) |-> sorted[k][2]]

SortByNum(links) == SortKeyed(links, [i \in 1..Len(links) |-> extract_num(links[i])])

extract_chapter_links(anchors) == SortByNum(Dedupe(anchors))

\* ------------------------------------------------------ progress ledger
\* The progress document of a job.  completed_stories and the per-story
\* completed_chapters are JSON lists; a key that is absent reads as the empty
\* list everywhere in ProgressTracker.
EmptyProgress ==
    [completed_stories |-> <<>>, stories |-> [s \in StoryUrls |-> <<>>]]

\* The progress file of a job: no file, a zero-length file (just opened for
\* writing), bytes that are not a JSON document, or a JSON document.
MissingFile == [kind |-> "missing", data |-> EmptyProgress]

EmptyFile == [kind |-> "empty", data |-> EmptyProgress]

CorruptFile == [kind |-> "corrupt", data |-> EmptyProgress]

\* bytes that are not UTF-8 text: reading them raises UnicodeDecodeError
UndecodableFile == [kind |-> "undecodable", data |-> EmptyProgress]

\* a JSON document that is not an object ([] or null)
NotObjectFile == [kind |-> "notobject", data |-> EmptyProgress]

JsonFile(progress) == [kind |-> "json", data |-> progress]

\* What a ProgressTracker call does not catch.  load_progress catches
\* json.JSONDecodeError and IOError only: the UnicodeDecodeError of
\* undecodable bytes leaves it, and on a document that is not an object
\* every caller fails at progress.get(...) / progress[...] = ...
LedgerCallRaises(file) == file.kind \in {"undecodable", "notobject"}

load_progress(file) == IF file.kind = "json" THEN file.data ELSE EmptyProgress

is_story_crawled(file, story_url) ==
    story_url \in Range(load_progress(file).completed_stories)

get_completed_chapters(file, story_url) ==
    Range(load_progress(file).stories[story_url])

\* the modify step of mark_story_completed
AddStory(progress, story_url) ==
    IF story_url \in Range(progress.completed_stories) THEN progress
    ELSE [progress EXCEPT !.completed_stories = Append(@, story_url)]

AddChapter_Always(progress, story_url, chapter_url) ==
    [progress EXCEPT !.stories[story_url] = Append(@, chapter_url)]

\* the modify step of mark_chapter_completed
AddChapter(progress, story_url, chapter_url) ==
    IF chapter_url \in Range(progress.stories[story_url]) THEN progress
    ELSE [progress EXCEPT !.stories[story_url] = Append(@, chapter_url)]

\* load, modify and save with nothing running in between (one callback of
\* the single-threaded spider)
mark_story_completed(file, story_url) ==
    JsonFile(AddStory(load_progress(file), story_url))

mark_chapter_completed(file, story_url, chapter_url) ==
    JsonFile(AddChapter(load_progress(file), story_url, chapter_url))

\* ------------------------------------------------------------------ state
VARIABLES
    files,      \* job id -> progress file (data/progress/<job_id>.json)
    site,       \* the story on the site: first-page anchors, linked list pages
    cfg,        \* spider arguments: resume_mode, chapters_limit
    run,        \* number of the current (or last) run of the job
    phase,      \* "idle": no spider process; "running": process alive
    collector,  \* collector_state of _handle_paginated_chapters
    batches,    \* per _request_chapters call: expected count and chapters_acc
    inflight,   \* requests scheduled and not yet answered
    seen,       \* request fingerprints of the scheduler's duplicate filter
    emitted,    \* story items yielded to the pipelines, over all runs
    calls,      \* history: the _request_chapters calls of this run
    responses,  \* history: outcome of the requests answered in this run
    startDone,  \* history: the story's completed chapters when the run began
    everDropped,\* history: some request of the job ended without a callback
    wpc,        \* worker -> position inside its ledger operation
    wop,        \* worker -> the ledger operation it runs (or ran last)
    wprog,      \* worker -> the progress dict it holds in memory
    wdone,      \* worker -> number of ledger operations that returned
    wlog,       \* history: the ledger calls one process made, in order
    listing,    \* the category listing on the site and the walker's arguments
    walker,     \* the Listing Walker: _parse_listing and what it yielded
    retry,      \* one request on its way through download, pause and retry
    pool,       \* the downloader's queue and transfers of a category crawl
    sync,       \* one call of sync_story: its loop, requests and counters
    job,        \* sync_from_list: its list, results and the stories table
    meta        \* one call of crawl_story_metadata: the page and the record

crawlVars == <<site, cfg, run, phase, collector, batches, inflight, seen,
               emitted, calls, responses, startDone, everDropped>>

workerVars == <<wpc, wop, wprog, wdone, wlog>>

listVars == <<listing, walker>>

netVars == <<retry, pool, sync, job, meta>>

vars == <<files, crawlVars, workerVars, listVars, netVars>>

\* ---------------------------------------------------------------- requests
StoryReq == [kind |-> "story", page |-> 0, url |-> NoUrl, batch |-> 0]

PageReq(p) == [kind |-> "page", page |-> p, url |-> NoUrl, batch |-> 0]

ChapterReq(u, b) == [kind |-> "chapter", page |-> 0, url |-> u, batch |-> b]

\* the request fingerprint is computed from the url alone
Fingerprint(req) == [kind |-> req.kind, page |-> req.page, url |-> req.url]

NoCollector == [active |-> FALSE, anchors |-> <<>>, remaining |-> 0]

\* the anchor lists of k pages that hold at most budget anchors together
RECURSIVE PageLists(_, _, _)
PageLists(urls, k, budget) ==
    IF k = 0 THEN {<<>>}
    ELSE UNION {{<<l>> \o rest : rest \in PageLists(urls, k - 1, budget - Len(l))} :
                    l \in SeqsUpTo(urls, budget)}

\* The stories a site can hold: the raw chapter anchors of the story page,
\* the list pages it links and their raw chapter anchors.  A list page that
\* is not linked is never fetched.
Sites(urls) ==
    UNION {{[first |-> ls[1], pagination |-> pg,
             pages |-> [p \in 1..MaxPageNum |-> ls[p + 1]],
             numeric_titles |-> {}, no_body |-> {}] :
                ls \in {l \in PageLists(urls, MaxPageNum + 1, MaxLinks) :
                            \A p \in 1..MaxPageNum : p \notin pg => l[p + 1] = <<>>}} :
            pg \in SUBSET (1..MaxPageNum)}

Ascending(links) ==
    \A i \in 1..Len(links) - 1 : extract_num(links[i]) < extract_num(links[i + 1])

\* sites whose pages link plain chapter urls only, each once and in order
PlainSites ==
    {st \in Sites(PlainUrls) :
        /\ Ascending(st.first)
        /\ \A p \in 1..MaxPageNum : Ascending(st.pages[p])}

\* no_body: the chapter urls whose page holds no text under div.chapter-c,
\* #chapter-c or .chapter-content.
\* numeric_titles: the chapter urls whose chapter title, as
\* _extract_chapter_title returns it, is a non-empty string of digits
NoSite == [first |-> <<>>, pagination |-> {},
           pages |-> [p \in 1..MaxPageNum |-> <<>>], numeric_titles |-> {},
           no_body |-> {}]

Configs == [resume_mode : BOOLEAN, chapters_limit : 0..MaxLimit]

\* A listing url of the walked category: cat tells whether the url holds
\* /the-loai/<category_slug>, num is the number after trang- (0: none, the
\* category's first page).
Links == [cat : BOOLEAN, num : 0..MaxPageNum + 1]

NoLink == [cat |-> FALSE, num |-> -1]

RootLink == [cat |-> TRUE, num |-> 0]

CatLink(n) == [cat |-> TRUE, num |-> n]

\* One listing page: the hrefs of its story titles in page order, the hrefs
\* inside ul.pagination in page order, and the href the generic "next"
\* selectors find (NoLink: none).
NoPage == [stories |-> <<>>, pagination |-> <<>>, fallback |-> NoLink]

\* last: the listing has pages 1..last; other page numbers answer 404.
\* max_stories, listing_pages: the spider arguments; start: the start url.
NoListing ==
    [pages |-> [p \in 1..MaxPageNum |-> NoPage], last |-> 0,
     max_stories |-> 0, listing_pages |-> 0, start |-> RootLink]

\* pending: the listing request in flight; seen: listing urls given to the
\* scheduler; collected: _collected_story_urls; yielded: story requests in
\* yield order; extracted: pages whose story links were read; requested:
\* next-page requests the scheduler took; decisions: the calls of
\* _find_next_page.
NoWalker ==
    [pending |-> NoLink, seen |-> {}, collected |-> <<>>, pages_crawled |-> 0,
     yielded |-> <<>>, extracted |-> <<>>, requested |-> <<>>,
     decisions |-> <<>>]

\* The Retry-After header of a response as process_response reads it:
\* absent, an empty value, an integer, <secs>.5, text that is no number (an
\* HTTP date, "nan"), bytes that are not UTF-8, an integer beyond what
\* time.sleep takes, or "inf".
NoHeader == [kind |-> "absent", secs |-> 0]

IntHeader(n) == [kind |-> "int", secs |-> n]

FloatHeader(n) == [kind |-> "float", secs |-> n]

RetryAfterHeaders ==
    {NoHeader} \cup {IntHeader(n) : n \in -1..MaxSeconds}
        \cup {FloatHeader(n) : n \in 0..MaxSeconds}
        \cup {[kind |-> k, secs |-> 0] :
                  k \in {"empty", "text", "badbytes", "hugeint", "inf"}}

\* phase: "idle", "downloading" (attempt sent), "received" (response at the
\* middlewares), "handed" (process_response returned it), "failed"
\* (process_response raised), "done" (response given to the spider or
\* dropped).  status, header: the last response; waited: seconds since it
\* arrived (while downloading: when the attempt was sent); paused: what
\* process_response slept on it; returned: what it returned.
NoResponse == [status |-> 0, header |-> NoHeader]

NoRetry ==
    [phase |-> "idle", attempt |-> 0, status |-> 0, header |-> NoHeader,
     waited |-> 0, paused |-> 0, returned |-> NoResponse]

\* The requests of a category crawl, counted per story.  stage: "unlisted",
\* "story" (the story page is requested), "chapters" (its chapter requests
\* were yielded).  queued: in the scheduler; waiting: taken by the
\* downloader, in the queue of its slot; transferring: being downloaded.
NoPool ==
    [stage |-> [s \in StoryUrls |-> "unlisted"],
     queued |-> [s \in StoryUrls |-> 0],
     waiting |-> [s \in StoryUrls |-> 0],
     transferring |-> [s \in StoryUrls |-> 0]]

\* What the site answers for chuong-<n>: "ok" (200 with text in
\* div.chapter-c), "emptybody" (200, div.chapter-c without text), "nobody"
\* (200 without div.chapter-c), "non200" (another status, or the request
\* raised).
PageKinds == {"ok", "emptybody", "nobody", "non200"}

\* pc: "idle", "loop" (in the for loop), "after_loop", "returned", "raised".
\* requested: the chapter numbers crawl_chapter was called with, in order;
\* stored: the chapter numbers indexed by store_chapter_in_elasticsearch.
NoSync ==
    [pc |-> "idle", pages |-> [n \in 0..MaxSyncEnd |-> "non200"],
     start_chapter |-> 0, end_chapter |-> 0, chapter_number |-> 0,
     requested |-> <<>>, stored |-> <<>>, chapters_added |-> 0, last_ok |-> 0,
     report |-> [start_chapter |-> 0, last_crawled_chapter |-> 0,
                 chapters_added |-> 0]]

\* pc: "idle", "running" (in the for loop of sync_from_list), "returned",
\* "raised" (an exception left sync_from_list), "calling" (sync_story
\* called on its own).  configured: supabase is not None; story_ids: the
\* lines of the list file; at: the position of the for loop; results: the
\* dicts appended so far; table: the column last_crawled_chapter of the
\* stories table (0: NULL or no row); story_id: the story of the sync_story
\* call under way; before: the value of its column when that call began;
\* runs: the sync_story calls so far.
NoJob ==
    [pc |-> "idle", configured |-> FALSE, story_ids |-> <<>>, end_chapter |-> 0,
     at |-> 0, results |-> <<>>, table |-> [s \in StoryUrls |-> 0],
     story_id |-> TheStory, before |-> 0, runs |-> 0]

\* What requests.get(url) gives crawl_story_metadata.  fetch: "ok" (status
\* 200), "non200", "raises" (the request raised).  title: h3.title is
\* "absent" or holds "text"; author: a[itemprop=author] likewise; image:
\* img[itemprop=image] is "absent", has no src attribute ("nosrc") or has one
\* ("src"); description: div[itemprop=description] is "absent", holds p/div
\* children ("blocks") or text and inline markup only ("inline").
StoryPages ==
    [fetch : {"ok", "non200", "raises"}, title : {"absent", "text"},
     image : {"absent", "nosrc", "src"}, author : {"absent", "text"},
     description : {"absent", "blocks", "inline"}]

NoStoryPage ==
    [fetch |-> "non200", title |-> "absent", image |-> "absent",
     author |-> "absent", description |-> "absent"]

\* return None
NoRecord ==
    [found |-> FALSE, title |-> "", author |-> "", image_url |-> "",
     description |-> ""]

\* pc: "idle", "fetched" (requests.get has ended), "returned"
NoMeta == [pc |-> "idle", page |-> NoStoryPage, record |-> NoRecord]

Workers == 1..MaxWorkers

NoOp == [kind |-> "none", job |-> TheJob, story |-> TheStory, chapter |-> NoUrl]

WorkersIdle ==
    /\ wpc = [w \in Workers |-> "idle"]
    /\ wop = [w \in Workers |-> NoOp]
    /\ wprog = [w \in Workers |-> EmptyProgress]
    /\ wdone = [w \in Workers |-> 0]
    /\ wlog = <<>>

SpiderIdle ==
    /\ run = 0
    /\ phase = "idle"
    /\ collector = NoCollector
    /\ batches = <<>>
    /\ inflight = {}
    /\ seen = {}
    /\ emitted = <<>>
    /\ calls = <<>>
    /\ responses = {}
    /\ startDone = {}
    /\ everDropped = FALSE
    /\ walker = NoWalker
    /\ retry = NoRetry
    /\ pool = NoPool
    /\ sync = NoSync
    /\ job = NoJob
    /\ meta = NoMeta

InitCrawl ==
    /\ files = [j \in JobIds |-> MissingFile]
    /\ site \in PlainSites
    /\ cfg \in Configs
    /\ SpiderIdle
    /\ WorkersIdle
    /\ listing = NoListing

\* ------------------------------------------------------------ the spider
is_crawled_Never(url) == FALSE

MergeAnchors_NoDedupe(anchors, new_links) == anchors \o new_links

\* for link in new_links: if link["url"] not in existing: anchors.append(link)
MergeAnchors(anchors, new_links) ==
    anchors \o SelectSeq(new_links, LAMBDA u : u \notin Range(anchors))

is_crawled_AnyMode(url) == is_story_crawled(files[TheJob], url)

\* return self.resume_mode and self.progress_tracker.is_story_crawled(...)
is_crawled(url) == cfg.resume_mode /\ is_story_crawled(files[TheJob], url)

ResumeFilter_KeepAll(selected, completed) == selected

\* selected = [l for l in selected if l["url"] not in completed]
ResumeFilter(selected, completed) ==
    SelectSeq(selected, LAMBDA u : u \notin completed)

ChapterLimit_NoCeiling ==
    IF cfg.chapters_limit > 0 THEN cfg.chapters_limit
    ELSE MAX_CHAPTERS_PER_STORY

\* limit = chapters_limit if chapters_limit > 0 else MAX; min(limit, MAX)
ChapterLimit ==
    Min(IF cfg.chapters_limit > 0 THEN cfg.chapters_limit
        ELSE MAX_CHAPTERS_PER_STORY, MAX_CHAPTERS_PER_STORY)

\* What one call of _request_chapters selects, given the ledger it reads.
Selected(chapter_links, file) ==
    LET limited == Take(chapter_links, ChapterLimit)
    IN  IF cfg.resume_mode /\ limited # <<>>
        THEN ResumeFilter(limited, get_completed_chapters(file, TheStory))
        ELSE limited

\* Requests a callback yields go through the scheduler, which drops a request
\* whose fingerprint it has seen in this process (dont_filter is never set).
Schedule(base, reqs) ==
    base \cup {r \in reqs : Fingerprint(r) \notin seen}

NothingSelected_Never(selected) == FALSE

\* if not selected: return (before the resume filter)
NothingSelected(selected) == selected = <<>>

\* _request_chapters(story, chapter_links); base is the set of requests in
\* flight once the response being handled is consumed.
request_chapters(chapter_links, base) ==
    LET limited == Take(chapter_links, ChapterLimit)
        selected == Selected(chapter_links, files[TheJob])
        b == Len(batches) + 1
        reqs == {ChapterReq(selected[i], b) : i \in 1..Len(selected)}
    IN  /\ calls' = Append(calls,
              [run |-> run, links |-> chapter_links, selected |-> selected,
               completed |-> get_completed_chapters(files[TheJob], TheStory)])
        /\ IF NothingSelected(limited)
           THEN /\ inflight' = base
                /\ UNCHANGED <<files, batches, seen>>
           ELSE IF cfg.resume_mode /\ selected = <<>>
           THEN /\ files' = [files EXCEPT
                      ![TheJob] = mark_story_completed(@, TheStory)]
                /\ inflight' = base
                /\ UNCHANGED <<batches, seen>>
           ELSE /\ batches' = Append(batches,
                      [expected |-> Len(selected), chapters |-> <<>>,
                       selected |-> selected])
                /\ inflight' = Schedule(base, reqs)
                /\ seen' = seen \cup {Fingerprint(r) : r \in reqs}
                /\ UNCHANGED files

\* _handle_paginated_chapters(response, story, initial_links, pagination_urls)
handle_paginated_chapters(initial_links, base) ==
    LET reqs == {PageReq(p) : p \in site.pagination}
    IN  /\ collector' = [active |-> TRUE, anchors |-> initial_links,
                         remaining |-> SetMax(site.pagination) - 1]
        /\ inflight' = Schedule(base, reqs)
        /\ seen' = seen \cup {Fingerprint(r) : r \in reqs}
        /\ UNCHANGED <<files, batches, calls>>

\* The process starts and schedules its start url (the story page).
StartRun ==
    /\ phase = "idle"
    /\ run < MaxRuns
    \* without resume_mode a run neither reads nor writes the ledger: a
    \* further run of such a job is a first run again
    /\ cfg.resume_mode \/ run = 0
    /\ run' = run + 1
    /\ phase' = "running"
    /\ inflight' = {StoryReq}
    /\ seen' = {Fingerprint(StoryReq)}
    /\ calls' = <<>>
    /\ responses' = {}
    /\ startDone' = get_completed_chapters(files[TheJob], TheStory)
    /\ UNCHANGED <<files, site, cfg, collector, batches, emitted, everDropped>>

\* parse -> parse_story: the story page arrived
parse_story ==
    /\ phase = "running"
    /\ StoryReq \in inflight
    /\ responses' = responses \cup
           {[req |-> StoryReq, result |-> "ok"]}
    /\ LET base == inflight \ {StoryReq}
           chapter_links == extract_chapter_links(site.first)
       IN  IF is_crawled(TheStory)
           THEN /\ inflight' = base
                /\ UNCHANGED <<files, collector, batches, seen, calls>>
           ELSE IF site.pagination # {}
           THEN handle_paginated_chapters(chapter_links, base)
           ELSE /\ request_chapters(chapter_links, base)
                /\ UNCHANGED collector
    /\ UNCHANGED <<site, cfg, run, phase, emitted, startDone, everDropped>>

\* parse_chapter_list_page: list page p arrived
parse_chapter_list_page(p) ==
    /\ phase = "running"
    /\ PageReq(p) \in inflight
    /\ responses' = responses \cup
           {[req |-> PageReq(p), result |-> "ok"]}
    /\ LET base == inflight \ {PageReq(p)}
           new_links == extract_chapter_links(site.pages[p])
           anchors == MergeAnchors(collector.anchors, new_links)
           remaining == collector.remaining - 1
           all_links == SortByNum(SelectSeq(anchors, HasSlashChuong))
       IN  /\ collector' = [collector EXCEPT !.anchors = anchors,
                                             !.remaining = remaining]
           /\ IF remaining <= 0
              THEN request_chapters(all_links, base)
              ELSE /\ inflight' = base
                   /\ UNCHANGED <<files, batches, seen, calls>>
    /\ UNCHANGED <<site, cfg, run, phase, emitted, startDone, everDropped>>

\* the condition of the list comprehension in _finalize_story
IsValidChapter(c) ==
    /\ ~HasSlashTrang(c.source_url)
    /\ ~(c.title_isdigit /\ c.chapter_number = 0)

\* valid chapters of _finalize_story, sorted by chapter_number
finalize_chapters(chapters) ==
    LET valid == SelectSeq(chapters, IsValidChapter)
    IN  SortKeyed(valid, [i \in 1..Len(valid) |-> valid[i].chapter_number])

\* the chapter dict parse_chapter builds from the response to url
ChapterOf(url) ==
    [chapter_number |-> extract_num(url),
     title_isdigit |-> url \in site.numeric_titles,
     content |-> IF url \in site.no_body THEN "" ELSE "text",
     source_url |-> url]

BatchComplete_First(chapters, expected) == Len(chapters) >= 1

\* if len(chapters) >= expected
BatchComplete(chapters, expected) == Len(chapters) >= expected

\* parse_chapter: a chapter page arrived (HTTP 200)
parse_chapter(req) ==
    /\ phase = "running"
    /\ req \in inflight
    /\ req.kind = "chapter"
    /\ responses' = responses \cup
           {[req |-> req, result |-> "ok"]}
    /\ inflight' = inflight \ {req}
    /\ LET chapter == ChapterOf(req.url)
           chapters == Append(batches[req.batch].chapters, chapter)
           marked == IF cfg.resume_mode
                     THEN mark_chapter_completed(files[TheJob], TheStory, req.url)
                     ELSE files[TheJob]
           done == BatchComplete(chapters, batches[req.batch].expected)
       IN  /\ batches' = [batches EXCEPT ![req.batch].chapters = chapters]
           /\ emitted' = IF done
                         THEN Append(emitted, [run |-> run, batch |-> req.batch,
                                  chapters |-> finalize_chapters(chapters),
                                  fetched |-> chapters,
                                  dispatched |-> batches[req.batch].selected])
                         ELSE emitted
           /\ files' = [files EXCEPT ![TheJob] =
                          IF done /\ cfg.resume_mode
                          THEN mark_story_completed(marked, TheStory)
                          ELSE marked]
    /\ UNCHANGED <<site, cfg, run, phase, collector, seen, calls, startDone,
                   everDropped>>

\* A request ends without a callback: HTTP 404 (dropped by the HTTP error
\* filter, no errback is set) or a failure that outlasted the retries.
DropResponse(req) ==
    /\ phase = "running"
    /\ req \in inflight
    /\ inflight' = inflight \ {req}
    /\ responses' = responses \cup
           {[req |-> req, result |-> "none"]}
    /\ everDropped' = TRUE
    /\ UNCHANGED <<files, site, cfg, run, phase, collector, batches, seen,
                   emitted, calls, startDone>>

\* The process ends (stopped, or nothing left to do); what it held in memory
\* is gone, the progress files and the emitted items stay.
Stop ==
    /\ phase = "running"
    /\ phase' = "idle"
    /\ inflight' = {}
    /\ seen' = {}
    /\ collector' = NoCollector
    /\ batches' = <<>>
    /\ UNCHANGED <<files, site, cfg, run, emitted, calls, responses, startDone,
                   everDropped>>

NextCrawl ==
    /\ \/ StartRun
       \/ parse_story
       \/ \E p \in 1..MaxPageNum : parse_chapter_list_page(p)
       \/ \E req \in inflight : parse_chapter(req)
       \/ \E req \in inflight : DropResponse(req)
       \/ Stop
    /\ UNCHANGED <<workerVars, listVars, netVars>>

SpecCrawl == InitCrawl /\ [][NextCrawl]_vars

Quiescent == phase = "running" /\ inflight = {}

\* ------------------------------------------- the chapter collector alone
\* One non-resume run of a paginated story up to the dispatch of its
\* chapters, over pages whose anchors may repeat, be out of order and share
\* a chapter number between different urls.
InitCollect ==
    /\ files = [j \in JobIds |-> MissingFile]
    /\ site \in {st \in Sites(ChapterUrls) : st.pagination # {}}
    /\ cfg \in {c \in Configs : ~c.resume_mode}
    /\ SpiderIdle
    /\ WorkersIdle
    /\ listing = NoListing

NextCollect ==
    /\ \/ StartRun
       \/ parse_story
       \/ \E p \in 1..MaxPageNum : parse_chapter_list_page(p)
       \/ \E req \in {r \in inflight : r.kind = "page"} : DropResponse(req)
    /\ UNCHANGED <<workerVars, listVars, netVars>>

SpecCollect == InitCollect /\ [][NextCollect]_vars

\* ------------------------------------- list pages with gaps in their numbers
\* A story page links any non-empty set of list pages among trang-1 ..
\* trang-<MaxPageNum + 1>; the story page links chuong-1 and every linked
\* list page links one chapter.  Every request is answered with 200.
GapSites ==
    {[first |-> <<PlainUrl(1)>>, pagination |-> pg,
      pages |-> [p \in 1..MaxPageNum + 1 |->
                    IF p \in pg THEN <<PlainUrl(Min(p, MaxChapterNum))>>
                    ELSE <<>>],
      numeric_titles |-> {}, no_body |-> {}] :
        pg \in (SUBSET (1..MaxPageNum + 1)) \ {{}}}

InitGap ==
    /\ files = [j \in JobIds |-> MissingFile]
    /\ site \in GapSites
    /\ cfg \in Configs
    /\ SpiderIdle
    /\ WorkersIdle
    /\ listing = NoListing

NextGap ==
    /\ \/ StartRun
       \/ parse_story
       \/ \E p \in 1..MaxPageNum + 1 : parse_chapter_list_page(p)
       \/ \E req \in inflight : parse_chapter(req)
    /\ UNCHANGED <<workerVars, listVars, netVars>>

\* the engine answers every request in flight
SpecGap == InitGap /\ [][NextGap]_vars /\ WF_vars(NextGap)

\* ------------------------------------------ the chapter fetches alone
\* One non-resume run of a story without list pages, whose anchors may share
\* a chapter number, carry no number, carry a numeric title or point to a
\* list page.
FetchSites(urls) ==
    UNION {{[NoSite EXCEPT !.first = f, !.numeric_titles = t] :
                t \in SUBSET Range(f)} : f \in SeqsUpTo(urls, MaxLinks)}

InitFetch ==
    /\ site \in FetchSites(FetchUrls)
    /\ files = [j \in JobIds |-> MissingFile]
    /\ cfg \in {c \in Configs : ~c.resume_mode}
    /\ SpiderIdle
    /\ WorkersIdle
    /\ listing = NoListing

NextFetch ==
    /\ \/ StartRun
       \/ parse_story
       \/ \E req \in inflight : parse_chapter(req)
       \/ \E req \in {r \in inflight : r.kind = "chapter"} : DropResponse(req)
       \/ Stop
    /\ UNCHANGED <<workerVars, listVars, netVars>>

SpecFetch == InitFetch /\ [][NextFetch]_vars

\* ------------------------------------------ chapter pages without body
\* A story page that links plain chapters in order; some of the chapter
\* pages answer 200 with no body text.
BodySites(urls) ==
    UNION {{[NoSite EXCEPT !.first = f, !.no_body = nb] :
                nb \in SUBSET Range(f)} :
            f \in {g \in SeqsUpTo(urls, MaxLinks) : Ascending(g)}}

InitBody ==
    /\ site \in BodySites(PlainUrls)
    /\ files = [j \in JobIds |-> MissingFile]
    /\ cfg \in Configs
    /\ SpiderIdle
    /\ WorkersIdle
    /\ listing = NoListing

SpecBody == InitBody /\ [][NextFetch]_vars

\* ------------------------------------- concurrent users of the ledger
\* Processes started with the same job id (job_id defaults to "default")
\* share one progress file; ProgressTracker takes no lock.
MarkOps ==
    {[kind |-> "story", job |-> j, story |-> s, chapter |-> NoUrl] :
        j \in JobIds, s \in StoryUrls}
    \cup {[kind |-> "chapter", job |-> j, story |-> s, chapter |-> c] :
        j \in JobIds, s \in StoryUrls, c \in PlainUrls}

\* the file of a job: <progress_dir>/<job_id>.json
get_progress_file_Shared(job_id) == TheJob

get_progress_file(job_id) == job_id

\* lines 58-62 and 71-78: load_progress, then the change in memory
Modify(progress, op) ==
    IF op.kind = "story" THEN AddStory(progress, op.story)
    ELSE AddChapter(progress, op.story, op.chapter)

\* every url listed in q is listed in p: p serialises at least as long as q
Includes(p, q) ==
    /\ Range(q.completed_stories) \subseteq Range(p.completed_stories)
    /\ \A s \in StoryUrls : Range(q.stories[s]) \subseteq Range(p.stories[s])

\* What the file holds after a writer that opened (and truncated) it earlier
\* writes its document from offset 0 and closes.  Bytes another writer put
\* there in between stay behind the end of a shorter document.
Overwrite(file, progress) ==
    IF file.kind \in {"empty", "missing"} THEN {JsonFile(progress)}
    ELSE IF file.kind = "corrupt" THEN {JsonFile(progress), CorruptFile}
    ELSE IF Includes(progress, file.data) THEN {JsonFile(progress)}
    ELSE IF Includes(file.data, progress) THEN {CorruptFile}
    ELSE {JsonFile(progress), CorruptFile}

\* mark_*: progress = self.load_progress(job_id) and the change in memory
BeginMark(w, op) ==
    /\ wpc[w] = "idle"
    /\ wdone[w] < MaxOps
    /\ wop' = [wop EXCEPT ![w] = op]
    /\ wprog' = [wprog EXCEPT ![w] =
                    Modify(load_progress(files[get_progress_file(op.job)]), op)]
    /\ wpc' = [wpc EXCEPT ![w] = "loaded"]
    /\ UNCHANGED <<files, wdone, wlog>>

\* save_progress: open(progress_file, "w") truncates the file
OpenForWrite(w) ==
    /\ wpc[w] = "loaded"
    /\ files' = [files EXCEPT ![get_progress_file(wop[w].job)] = EmptyFile]
    /\ wpc' = [wpc EXCEPT ![w] = "opened"]
    /\ UNCHANGED <<wop, wprog, wdone, wlog>>

\* save_progress: json.dump into the buffer, flushed when the with block
\* closes the file; the mark operation returns
WriteAndClose(w) ==
    /\ wpc[w] = "opened"
    /\ \E f \in Overwrite(files[get_progress_file(wop[w].job)], wprog[w]) :
          files' = [files EXCEPT ![get_progress_file(wop[w].job)] = f]
    /\ wpc' = [wpc EXCEPT ![w] = "idle"]
    /\ wdone' = [wdone EXCEPT ![w] = @ + 1]
    /\ wprog' = [wprog EXCEPT ![w] = EmptyProgress]
    /\ UNCHANGED <<wop, wlog>>

\* a progress document left by earlier runs
SeedProgress ==
    AddStory(AddChapter(EmptyProgress, MaxStories, PlainUrl(MaxChapterNum)),
             MaxStories)

InitLedger ==
    /\ files \in [JobIds -> {MissingFile, CorruptFile, JsonFile(SeedProgress)}]
    /\ site = NoSite
    /\ cfg = [resume_mode |-> TRUE, chapters_limit |-> 0]
    /\ SpiderIdle
    /\ WorkersIdle
    /\ listing = NoListing

NextLedger ==
    /\ \/ \E w \in Workers, op \in MarkOps : BeginMark(w, op)
       \/ \E w \in Workers : OpenForWrite(w)
       \/ \E w \in Workers : WriteAndClose(w)
    /\ UNCHANGED <<crawlVars, listVars, netVars>>

SpecLedger == InitLedger /\ [][NextLedger]_vars

AllIdle == \A w \in Workers : wpc[w] = "idle"

InLedger(op) ==
    IF op.kind = "story"
    THEN op.story \in Range(load_progress(files[op.job]).completed_stories)
    ELSE op.chapter \in Range(load_progress(files[op.job]).stories[op.story])

\* ------------------------------------------- processes of several jobs
\* Every process is started with a job id of its own (crawl-multiple.py
\* passes the category as --job-id) and marks the same story and chapter
\* urls as the others.
JobOf(w) == ((w - 1) % MaxJobs) + 1

JobOps(j) ==
    {op \in MarkOps : /\ op.job = j
                      /\ op.story = TheStory
                      /\ op.chapter \in {NoUrl, PlainUrl(1)}}

InitJobs ==
    /\ files \in [JobIds -> {MissingFile, JsonFile(SeedProgress)}]
    /\ site = NoSite
    /\ cfg = [resume_mode |-> TRUE, chapters_limit |-> 0]
    /\ SpiderIdle
    /\ WorkersIdle
    /\ listing = NoListing

NextJobs ==
    /\ \/ \E w \in Workers : \E op \in JobOps(JobOf(w)) : BeginMark(w, op)
       \/ \E w \in Workers : OpenForWrite(w)
       \/ \E w \in Workers : WriteAndClose(w)
    /\ UNCHANGED <<crawlVars, listVars, netVars>>

SpecJobs == InitJobs /\ [][NextJobs]_vars

\* ------------------------------------------- marks and process restarts
\* The processes of a job run one after the other; a process can be killed
\* at any point of a mark operation and another one started.
BeginMarkAlone(w, op) == AllIdle /\ BeginMark(w, op)

\* The process of worker w is killed inside a mark operation.  Killed after
\* open(progress_file, "w") and before the with block closes, the file is
\* left truncated: empty when nothing was flushed yet, a prefix of the
\* document when json.dump already filled the write buffer once.
Kill(w) ==
    /\ wpc[w] # "idle"
    /\ \E f \in IF wpc[w] = "opened" THEN {EmptyFile, CorruptFile}
                 ELSE {files[get_progress_file(wop[w].job)]} :
          files' = [files EXCEPT ![get_progress_file(wop[w].job)] = f]
    /\ wpc' = [wpc EXCEPT ![w] = "idle"]
    /\ wprog' = [wprog EXCEPT ![w] = EmptyProgress]
    /\ UNCHANGED <<wop, wdone, wlog>>

NextRestart ==
    /\ \/ \E w \in Workers, op \in MarkOps : BeginMarkAlone(w, op)
       \/ \E w \in Workers : OpenForWrite(w)
       \/ \E w \in Workers : WriteAndClose(w)
       \/ \E w \in Workers : Kill(w)
    /\ UNCHANGED <<crawlVars, listVars, netVars>>

SpecRestart == InitLedger /\ [][NextRestart]_vars

\* ------------------------------------------ ledger calls in sequence
\* One process calls the ProgressTracker of its job, one call after the
\* other, on a progress file in any condition.
ReadOps ==
    {[kind |-> k, job |-> TheJob, story |-> s, chapter |-> NoUrl] :
        k \in {"is_story_crawled", "get_completed_chapters"}, s \in StoryUrls}

LedgerOps == {op \in MarkOps : op.job = TheJob} \cup ReadOps

IsMark(op) == op.kind \in {"story", "chapter"}

ApplyMark(file, op) ==
    IF op.kind = "story" THEN mark_story_completed(file, op.story)
    ELSE mark_chapter_completed(file, op.story, op.chapter)

\* one call of is_story_crawled, get_completed_chapters,
\* mark_story_completed or mark_chapter_completed
CallLedger(op) ==
    /\ Len(wlog) < MaxCalls
    /\ LET before == files[op.job]
           raised == LedgerCallRaises(before)
           after == IF raised \/ ~IsMark(op) THEN before
                    ELSE ApplyMark(before, op)
       IN  /\ files' = [files EXCEPT ![op.job] = after]
           /\ wlog' = Append(wlog,
                  [op |-> op, before |-> before, after |-> after,
                   raised |-> raised,
                   crawled |-> /\ ~raised
                               /\ op.kind = "is_story_crawled"
                               /\ is_story_crawled(before, op.story),
                   chapters |-> IF ~raised /\ op.kind = "get_completed_chapters"
                                THEN get_completed_chapters(before, op.story)
                                ELSE {}])
    /\ UNCHANGED <<crawlVars, listVars, netVars, wpc, wop, wprog, wdone>>

InitMarks ==
    /\ \E f \in {MissingFile, EmptyFile, CorruptFile, UndecodableFile,
                  NotObjectFile, JsonFile(SeedProgress)} :
          files = [j \in JobIds |-> IF j = TheJob THEN f ELSE MissingFile]
    /\ site = NoSite
    /\ cfg = [resume_mode |-> TRUE, chapters_limit |-> 0]
    /\ SpiderIdle
    /\ WorkersIdle
    /\ listing = NoListing

NextMarks == \E op \in LedgerOps : CallLedger(op)

SpecMarks == InitMarks /\ [][NextMarks]_vars

\* ------------------------------------------------ the chapter limit
\* One story page without list pages that links chapters 1..n, for n around
\* 0 and around MAX_CHAPTERS_PER_STORY, under chapter limits that are
\* negative, zero, small, and around MAX_CHAPTERS_PER_STORY.
NearCeiling ==
    (MAX_CHAPTERS_PER_STORY - MaxLimit)..(MAX_CHAPTERS_PER_STORY + MaxLimit)

LinkCounts == (0..MaxLinks) \cup NearCeiling

Limits == ((0 - MaxLimit)..MaxLimit) \cup NearCeiling

ChaptersUpTo(n) == [i \in 1..n |-> PlainUrl(i)]

InitLimit ==
    /\ \E n \in LinkCounts : site = [NoSite EXCEPT !.first = ChaptersUpTo(n)]
    /\ cfg \in [resume_mode : BOOLEAN, chapters_limit : Limits]
    /\ \E f \in {MissingFile} \cup
                 (IF cfg.resume_mode
                  THEN {mark_chapter_completed(MissingFile, TheStory, PlainUrl(1))}
                  ELSE {}) :
          files = [j \in JobIds |-> IF j = TheJob THEN f ELSE MissingFile]
    /\ SpiderIdle
    /\ WorkersIdle
    /\ listing = NoListing

NextLimit ==
    /\ \/ StartRun
       \/ parse_story
       \/ Stop
    /\ UNCHANGED <<workerVars, listVars, netVars>>

SpecLimit == InitLimit /\ [][NextLimit]_vars

\* ------------------------------------------------- the Listing Walker
\* self.max_stories as __init__ leaves it
MaxStoriesOf(l) ==
    IF l.max_stories # 0 THEN l.max_stories ELSE DEFAULT_MAX_STORIES

\* the page a listing url answers with, and the page number the walker
\* reads from response.url (1 without trang-<n>)
CurPage(link) == IF link.num = 0 THEN 1 ELSE link.num

PageLimitReached_Never(pages_crawled) == FALSE

\* if self.listing_pages and self._pages_crawled > self.listing_pages
PageLimitReached(pages_crawled) ==
    listing.listing_pages # 0 /\ pages_crawled > listing.listing_pages

StoryBudgetLeft_Always(collected) == TRUE

\* not (self.max_stories and len(self._collected_story_urls) >= self.max_stories)
StoryBudgetLeft(collected) == Len(collected) < MaxStoriesOf(listing)

AlreadyCollected_Never(url, collected) == FALSE

\* if url in self._collected_story_urls
AlreadyCollected(url, collected) == url \in Range(collected)

\* the for loop of _parse_listing over the story hrefs of one page
RECURSIVE CollectStories(_, _)
CollectStories(collected, hrefs) ==
    IF hrefs = <<>> \/ ~StoryBudgetLeft(collected) THEN collected
    ELSE CollectStories(
             IF AlreadyCollected(Head(hrefs), collected) THEN collected
             ELSE Append(collected, Head(hrefs)),
             Tail(hrefs))

\* _find_next_fallback(response)
find_next_fallback(page) == page.fallback

\* _find_next_page(response); cur_page is read from response.url
find_next_page(page, cur_page) ==
    IF page.pagination = <<>> THEN find_next_fallback(page)
    ELSE LET cat_links == SelectSeq(page.pagination, LAMBDA l : l.cat)
             candidates == SelectSeq(cat_links, LAMBDA l : l.num > 0)
             next_pages == SelectSeq(candidates, LAMBDA l : l.num > cur_page)
         IN  IF candidates = <<>>
             THEN IF cat_links # <<>> THEN cat_links[1] ELSE NoLink
             ELSE IF next_pages # <<>>
             THEN SortKeyed(next_pages,
                      [i \in 1..Len(next_pages) |-> next_pages[i].num])[1]
             ELSE NoLink

\* The process starts and schedules its start url (a listing page).
StartWalk ==
    /\ phase = "idle"
    /\ run = 0
    /\ run' = 1
    /\ phase' = "running"
    /\ walker' = [NoWalker EXCEPT !.pending = listing.start,
                                  !.seen = {listing.start}]
    /\ UNCHANGED <<files, site, cfg, collector, batches, inflight, seen,
                   emitted, calls, responses, startDone, everDropped, listing>>

\* parse -> _parse_listing: the listing page in flight arrived
parse_listing ==
    /\ phase = "running"
    /\ walker.pending # NoLink
    /\ CurPage(walker.pending) <= listing.last
    /\ LET link == walker.pending
           page == listing.pages[CurPage(link)]
           pages_crawled == walker.pages_crawled + 1
           collected == CollectStories(walker.collected, page.stories)
           new == SubSeq(collected, Len(walker.collected) + 1, Len(collected))
           asked == StoryBudgetLeft(collected)
           next_url == IF asked THEN find_next_page(page, CurPage(link))
                       ELSE NoLink
           taken == next_url # NoLink /\ next_url \notin walker.seen
       IN  IF PageLimitReached(pages_crawled)
           THEN walker' = [walker EXCEPT !.pending = NoLink,
                                         !.pages_crawled = pages_crawled]
           ELSE walker' =
                  [pending |-> IF taken THEN next_url ELSE NoLink,
                   seen |-> IF next_url # NoLink
                            THEN walker.seen \cup {next_url} ELSE walker.seen,
                   collected |-> collected,
                   pages_crawled |-> pages_crawled,
                   yielded |-> walker.yielded \o
                                   SelectSeq(new, LAMBDA u : ~is_crawled(u)),
                   extracted |-> Append(walker.extracted, CurPage(link)),
                   requested |-> IF taken THEN Append(walker.requested, next_url)
                                 ELSE walker.requested,
                   decisions |-> IF asked
                                 THEN Append(walker.decisions,
                                          [page |-> page, cur |-> CurPage(link),
                                           next |-> next_url])
                                 ELSE walker.decisions]
    /\ UNCHANGED <<files, crawlVars, listing>>

\* The listing request ends without a callback: HTTP 404 or a failure that
\* outlasted the retries.
DropListing ==
    /\ phase = "running"
    /\ walker.pending # NoLink
    /\ walker' = [walker EXCEPT !.pending = NoLink]
    /\ UNCHANGED <<files, crawlVars, listing>>

\* listing pages 1..last whose ul.pagination links every other page of the
\* category ("pagination") or that only carry a generic next link ("next")
NavOf(style, p, last) ==
    IF style = "pagination"
    THEN [pagination |-> SelectSeq([q \in 1..last |-> CatLink(q)],
                                   LAMBDA l : l.num # p),
          fallback |-> NoLink]
    ELSE [pagination |-> <<>>,
          fallback |-> IF p < last THEN CatLink(p + 1) ELSE NoLink]

ListingOf(stories, last, style, max_stories, listing_pages) ==
    [pages |-> [p \in 1..MaxPageNum |->
                  IF p <= last
                  THEN [stories |-> stories[p],
                        pagination |-> NavOf(style, p, last).pagination,
                        fallback |-> NavOf(style, p, last).fallback]
                  ELSE NoPage],
     last |-> last, max_stories |-> max_stories,
     listing_pages |-> listing_pages, start |-> RootLink]

InitListing ==
    /\ \E last \in 1..MaxPageNum :
          \E stories \in PageLists(StoryUrls, last, MaxLinks),
             style \in {"pagination", "next"},
             m \in 0..MaxStories, k \in 0..MaxPageNum :
                listing = ListingOf(stories, last, style, m, k)
    /\ cfg \in {c \in Configs : c.chapters_limit = 0}
    /\ \E f \in {MissingFile} \cup
                 (IF cfg.resume_mode THEN {JsonFile(SeedProgress)} ELSE {}) :
          files = [j \in JobIds |-> IF j = TheJob THEN f ELSE MissingFile]
    /\ site = NoSite
    /\ SpiderIdle
    /\ WorkersIdle

NextListing ==
    /\ \/ StartWalk
       \/ parse_listing
       \/ DropListing
    /\ UNCHANGED <<workerVars, netVars>>

SpecListing == InitListing /\ [][NextListing]_vars

\* ------------------------------------- one job id, category and story
\* parse: the start url is a category listing or a story page.  A job in
\* resume mode is run on a category and on the story page of one of its
\* stories, with the same job id (job_id or "default").
StoryDoneProgress == AddStory(EmptyProgress, TheStory)

\* the story: its page links chapter 1 and, or not, a list page that links
\* the last chapter
StorySites ==
    {[NoSite EXCEPT !.first = <<PlainUrl(1)>>, !.pagination = pg,
                    !.pages[1] = IF pg = {} THEN <<>>
                                 ELSE <<PlainUrl(MaxChapterNum)>>] :
        pg \in {{}, {1}}}

InitSpider ==
    /\ \E last \in 1..MaxPageNum :
          \E stories \in PageLists(StoryUrls, last, MaxLinks),
             style \in {"pagination", "next"} :
                listing = ListingOf(stories, last, style, 0, 0)
    /\ site \in StorySites
    /\ cfg = [resume_mode |-> TRUE, chapters_limit |-> 0]
    /\ \E f \in {MissingFile, JsonFile(SeedProgress),
                  JsonFile(StoryDoneProgress)} :
          files = [j \in JobIds |-> IF j = TheJob THEN f ELSE MissingFile]
    /\ SpiderIdle
    /\ WorkersIdle

\* a run on the story page starts when no run on the category is under way
StartStoryRun == walker.pending = NoLink /\ StartRun

NextSpider ==
    \/ NextListing
    \/ /\ \/ StartStoryRun
          \/ parse_story
          \/ \E p \in 1..MaxPageNum : parse_chapter_list_page(p)
          \/ \E req \in inflight : parse_chapter(req)
          \/ \E req \in inflight : DropResponse(req)
          \/ Stop
       /\ UNCHANGED <<workerVars, listVars, netVars>>

SpecSpider == InitSpider /\ [][NextSpider]_vars

\* --------------------------------- a job without resume, ledger present
\* the ledger an earlier resumed job left: the story and its chapter 1 done
DoneProgress == AddChapter(StoryDoneProgress, TheStory, PlainUrl(1))

InitPlain ==
    /\ \E last \in 1..MaxPageNum :
          \E stories \in PageLists(StoryUrls, last, MaxLinks),
             style \in {"pagination", "next"} :
                listing = ListingOf(stories, last, style, 0, 0)
    /\ site \in StorySites
    /\ cfg \in {c \in Configs : ~c.resume_mode}
    /\ \E f \in {MissingFile, JsonFile(DoneProgress)} :
          files = [j \in JobIds |-> IF j = TheJob THEN f ELSE MissingFile]
    /\ SpiderIdle
    /\ WorkersIdle

SpecPlain == InitPlain /\ [][NextSpider]_vars

\* ------------------------------------------- stories without chapter links
\* the story page links no chapter; it links no list page, or one that
\* links no chapter either
EmptySites ==
    {[NoSite EXCEPT !.pagination = pg] : pg \in {{}, {1}}}

InitEmpty ==
    \* a category of one listing page that links one story or none
    /\ \E stories \in PageLists(StoryUrls, 1, 1),
          style \in {"pagination", "next"} :
             listing = ListingOf(stories, 1, style, 0, 0)
    /\ site \in StorySites \cup EmptySites
    /\ cfg \in {c \in Configs : c.chapters_limit = 0}
    /\ \E f \in {MissingFile, JsonFile(SeedProgress)} :
          files = [j \in JobIds |-> IF j = TheJob THEN f ELSE MissingFile]
    /\ SpiderIdle
    /\ WorkersIdle

\* a later run of the job on the category listing
StartLaterWalk ==
    /\ phase = "idle"
    /\ run > 0
    /\ run < MaxRuns
    /\ cfg.resume_mode
    /\ run' = run + 1
    /\ phase' = "running"
    /\ walker' = [NoWalker EXCEPT !.pending = listing.start,
                                  !.seen = {listing.start}]
    /\ UNCHANGED <<files, site, cfg, collector, batches, inflight, seen,
                   emitted, calls, responses, startDone, everDropped, listing>>

NextEmpty ==
    \/ NextSpider
    \/ StartLaterWalk /\ UNCHANGED <<workerVars, netVars>>

SpecEmpty == InitEmpty /\ [][NextEmpty]_vars

\* ------------------------------------------------ next-page discovery
\* One listing page with any links inside ul.pagination and any generic
\* next link, reached as the category's first page or as trang-<n>.
NavPages(links) ==
    {[stories |-> <<>>, pagination |-> pg, fallback |-> fb] :
        pg \in SeqsUpTo(links, MaxNavLinks),
        fb \in {NoLink} \cup {CatLink(n) : n \in 1..MaxPageNum + 1}}

InitNext ==
    /\ files = [j \in JobIds |-> MissingFile]
    /\ site = NoSite
    /\ cfg = [resume_mode |-> FALSE, chapters_limit |-> 0]
    /\ SpiderIdle
    /\ WorkersIdle
    /\ listing \in
          {[NoListing EXCEPT !.pages = [p \in 1..MaxPageNum |->
                                          IF p = CurPage(st) THEN pg ELSE NoPage],
                             !.last = MaxPageNum, !.start = st] :
              pg \in NavPages(Links),
              st \in {RootLink} \cup {CatLink(n) : n \in 1..MaxPageNum}}

SpecNext == InitNext /\ [][NextListing]_vars

\* ------------------------------------------- the Politeness/Retry Layer
\* One request: downloaded, its response passed through
\* RespectRetryAfterMiddleware.process_response (order 560, so before
\* RetryMiddleware at 550 on the way back) and retried by RetryMiddleware.
Statuses == {200, 404} \cup RETRY_HTTP_CODES

\* a ValueError of int() and float() that nothing catches
parse_retry_after_Uncaught(header) ==
    IF header.kind \in {"int", "float"}
    THEN [kind |-> "int", secs |-> header.secs]
    ELSE [kind |-> "raise", secs |-> 0]

\* _parse_retry_after: int(text); on ValueError or UnicodeDecodeError
\* int(float(text)), which cuts <secs>.5 down to <secs> and raises
\* OverflowError on "inf"; on ValueError or UnicodeDecodeError again, None.
parse_retry_after(header) ==
    IF header.kind \in {"int", "float"}
    THEN [kind |-> "int", secs |-> header.secs]
    ELSE IF header.kind = "hugeint" THEN [kind |-> "huge", secs |-> 0]
    ELSE IF header.kind = "inf" THEN [kind |-> "raise", secs |-> 0]
    ELSE [kind |-> "none", secs |-> 0]

Passed(response) == [raised |-> FALSE, pause |-> 0, response |-> response]

Raised(response) == [raised |-> TRUE, pause |-> 0, response |-> response]

process_response_NoSleep(response) ==
    IF response.status = 503 /\ response.header.kind \in {"hugeint", "inf"}
    THEN Raised(response)
    ELSE Passed(response)

\* process_response: what it returns, how long it sleeps, whether it raises
\* (time.sleep raises OverflowError beyond its range)
process_response(response) ==
    IF response.status # 503 THEN Passed(response)
    ELSE IF response.header.kind \in {"absent", "empty"} THEN Passed(response)
    ELSE LET wait_seconds == parse_retry_after(response.header)
         IN  IF wait_seconds.kind \in {"raise", "huge"} THEN Raised(response)
             ELSE IF wait_seconds.kind = "int" /\ wait_seconds.secs > 0
                  THEN [raised |-> FALSE, pause |-> wait_seconds.secs,
                        response |-> response]
                  ELSE Passed(response)

\* the engine sends the request for the first time
SendRequest ==
    /\ retry.phase = "idle"
    /\ retry' = [retry EXCEPT !.phase = "downloading", !.attempt = 1]

\* the server answers
Respond(status, header) ==
    /\ retry.phase = "downloading"
    /\ retry' = [retry EXCEPT !.phase = "received", !.status = status,
                              !.header = header, !.waited = 0, !.paused = 0,
                              !.returned = NoResponse]

\* RespectRetryAfterMiddleware.process_response on the response; an
\* exception fails the request (no errback is set)
ProcessResponse ==
    /\ retry.phase = "received"
    /\ LET r == process_response([status |-> retry.status,
                                  header |-> retry.header])
       IN  retry' = IF r.raised THEN [retry EXCEPT !.phase = "failed"]
                    ELSE [retry EXCEPT !.phase = "handed",
                                       !.waited = @ + r.pause,
                                       !.paused = r.pause,
                                       !.returned = r.response]

\* RetryMiddleware: a status of RETRY_HTTP_CODES is retried RETRY_TIMES
\* times; the scheduler sends the new attempt d seconds later
RetryRequest(d) ==
    /\ retry.phase = "handed"
    /\ retry.returned.status \in RETRY_HTTP_CODES
    /\ retry.attempt <= RETRY_TIMES
    /\ retry' = [retry EXCEPT !.phase = "downloading", !.attempt = @ + 1,
                              !.waited = @ + d]

\* the response goes to the spider, or is dropped after the last retry
Deliver ==
    /\ retry.phase = "handed"
    /\ \/ retry.returned.status \notin RETRY_HTTP_CODES
       \/ retry.attempt > RETRY_TIMES
    /\ retry' = [retry EXCEPT !.phase = "done"]

InitRetry ==
    /\ files = [j \in JobIds |-> MissingFile]
    /\ site = NoSite
    /\ cfg = [resume_mode |-> FALSE, chapters_limit |-> 0]
    /\ SpiderIdle
    /\ WorkersIdle
    /\ listing = NoListing

NextRetry ==
    /\ \/ SendRequest
       \/ \E st \in Statuses, h \in RetryAfterHeaders : Respond(st, h)
       \/ ProcessResponse
       \/ \E d \in 0..MaxDelay : RetryRequest(d)
       \/ Deliver
    /\ UNCHANGED <<files, crawlVars, workerVars, listVars, pool, sync, job, meta>>

SpecRetry == InitRetry /\ [][NextRetry]_vars

\* ------------------------------------- the requests of a category crawl
\* crawl_category_pages runs one spider in one CrawlerProcess with
\* SCRAPER_SETTINGS: the engine moves a request from the scheduler to the
\* downloader while fewer than CONCURRENT_REQUESTS are there, and a slot
\* starts a transfer while fewer than CONCURRENT_REQUESTS_PER_DOMAIN of its
\* requests are being downloaded.
RECURSIVE SumTo(_, _)
SumTo(f, n) == IF n = 0 THEN 0 ELSE f[n] + SumTo(f, n - 1)

Total(f) == SumTo(f, MaxStories)

TargetHost == 0

\* a slot of its own for every story
download_slot_PerStory(s) == s

\* The requests of lines 70, 220 and 252 carry no download_slot in meta:
\* the slot is the host of the url, the same for all stories.
download_slot(s) == TargetHost

SlotLoad(slot) ==
    Total([s \in StoryUrls |->
              IF download_slot(s) = slot THEN pool.transferring[s] ELSE 0])

InDownloader == Total(pool.waiting) + Total(pool.transferring)

\* _parse_listing: a story request for every story link of the page
YieldStories ==
    /\ \A s \in StoryUrls : pool.stage[s] = "unlisted"
    /\ pool' = [pool EXCEPT !.stage = [s \in StoryUrls |-> "story"],
                            !.queued = [s \in StoryUrls |-> 1]]

\* the engine hands the next request of the scheduler to the downloader
Fetch(s) ==
    /\ pool.queued[s] > 0
    /\ InDownloader < CONCURRENT_REQUESTS
    /\ pool' = [pool EXCEPT !.queued[s] = @ - 1, !.waiting[s] = @ + 1]

\* the slot of the request starts its download
Transfer(s) ==
    /\ pool.waiting[s] > 0
    /\ SlotLoad(download_slot(s)) < CONCURRENT_REQUESTS_PER_DOMAIN
    /\ pool' = [pool EXCEPT !.waiting[s] = @ - 1, !.transferring[s] = @ + 1]

\* The download ends.  The story page's callback, parse_story, yields the
\* k chapter requests of _request_chapters at once; a chapter's callback
\* yields no request.
Answer(s, k) ==
    /\ pool.transferring[s] > 0
    /\ pool' = IF pool.stage[s] = "story"
               THEN [pool EXCEPT !.transferring[s] = @ - 1,
                                 !.stage[s] = "chapters", !.queued[s] = @ + k]
               ELSE [pool EXCEPT !.transferring[s] = @ - 1]

InitPool ==
    /\ files = [j \in JobIds |-> MissingFile]
    /\ site = NoSite
    /\ cfg = [resume_mode |-> FALSE, chapters_limit |-> 0]
    /\ SpiderIdle
    /\ WorkersIdle
    /\ listing = NoListing

NextPool ==
    /\ \/ YieldStories
       \/ \E s \in StoryUrls : Fetch(s)
       \/ \E s \in StoryUrls : Transfer(s)
       \/ \E s \in StoryUrls, k \in {0, MaxBatch} : Answer(s, k)
    /\ UNCHANGED <<files, crawlVars, workerVars, listVars, retry, sync, job, meta>>

SpecPool == InitPool /\ [][NextPool]_vars

\* ------------------------------------------------------- sync_story
\* scraper.py: one call of sync_story(story_id, start_chapter, end_chapter)
NoChapter == [found |-> FALSE, content |-> ""]

\* crawl_chapter: None on a status other than 200, on an exception and when
\* div.chapter-c is absent; else the chapter with the text of the div
crawl_chapter(page) ==
    IF page = "ok" THEN [found |-> TRUE, content |-> "text"]
    ELSE IF page = "emptybody" THEN [found |-> TRUE, content |-> ""]
    ELSE NoChapter

LoopStops_Never(chapter_data) == FALSE

\* if not chapter_data: break
LoopStops(chapter_data) == ~chapter_data.found

\* lines 235-236, with start_chapter given or read from the stories table
StartSync(start, end, pages) ==
    /\ sync.pc = "idle"
    /\ sync' = [NoSync EXCEPT !.pc = "loop", !.pages = pages,
                              !.start_chapter = start, !.end_chapter = end,
                              !.chapter_number = start,
                              !.chapters_added = 0, !.last_ok = start - 1]

\* One turn of the for loop.  store: both stores return ("ok"),
\* store_chapter_in_elasticsearch raises ("es_raises"), or
\* store_chapter_in_supabase raises after the chapter was indexed.
SyncChapter(store) ==
    /\ sync.pc = "loop"
    /\ sync.chapter_number <= sync.end_chapter
    /\ LET n == sync.chapter_number
           chapter_data == crawl_chapter(sync.pages[n])
           asked == Append(sync.requested, n)
       IN  sync' =
             IF LoopStops(chapter_data)
             THEN [sync EXCEPT !.requested = asked, !.pc = "after_loop"]
             ELSE IF store = "es_raises"
             THEN [sync EXCEPT !.requested = asked, !.pc = "raised"]
             ELSE IF store = "supabase_raises"
             THEN [sync EXCEPT !.requested = asked, !.pc = "raised",
                               !.stored = Append(@, n)]
             ELSE [sync EXCEPT !.requested = asked,
                               !.stored = Append(@, n),
                               !.chapters_added = @ + 1,
                               !.last_ok = n,
                               !.chapter_number = n + 1]

\* range(start_chapter, end_chapter + 1) is used up
ExitLoop ==
    /\ sync.pc = "loop"
    /\ sync.chapter_number > sync.end_chapter
    /\ sync' = [sync EXCEPT !.pc = "after_loop"]

\* upsert_story of the crawl state, then the returned dict
ReturnReport(upsert_ok) ==
    /\ sync.pc = "after_loop"
    /\ sync' = IF upsert_ok
               THEN [sync EXCEPT !.pc = "returned",
                        !.report = [start_chapter |-> sync.start_chapter,
                                    last_crawled_chapter |-> sync.last_ok,
                                    chapters_added |-> sync.chapters_added]]
               ELSE [sync EXCEPT !.pc = "raised"]

InitSync ==
    /\ files = [j \in JobIds |-> MissingFile]
    /\ site = NoSite
    /\ cfg = [resume_mode |-> FALSE, chapters_limit |-> 0]
    /\ SpiderIdle
    /\ WorkersIdle
    /\ listing = NoListing

NextSync ==
    /\ \/ /\ sync.pc = "idle"
          /\ \E start \in 0..MaxSyncEnd + 1, end \in 0..MaxSyncEnd,
                pages \in [0..MaxSyncEnd -> PageKinds] :
                   StartSync(start, end, pages)
       \/ \E store \in {"ok", "es_raises", "supabase_raises"} :
             SyncChapter(store)
       \/ ExitLoop
       \/ \E upsert_ok \in BOOLEAN : ReturnReport(upsert_ok)
    /\ UNCHANGED <<files, crawlVars, workerVars, listVars, retry, pool, job, meta>>

SpecSync == InitSync /\ [][NextSync]_vars

\* ------------------------------------------------ crawl_story_metadata
\* title_tag.text.strip() if title_tag else "Title not found"
title_of(page) ==
    IF page.title # "absent" THEN "h3.title text" ELSE "Title not found"

\* image_tag['src'] if image_tag and 'src' in image_tag.attrs else ...
image_url_of(page) ==
    IF page.image # "absent" /\ page.image = "src" THEN "img src"
    ELSE "Image URL not found"

author_name_of_Blank(page) ==
    IF page.author # "absent" THEN "a[itemprop=author] text" ELSE ""

\* author_tag.text.strip() if author_tag else "Author not found"
author_name_of(page) ==
    IF page.author # "absent" THEN "a[itemprop=author] text"
    ELSE "Author not found"

\* lines 62-72: "Not found" unless the div exists; then the texts of its
\* p/div children, or its contents with the inline markup removed
description_of(page) ==
    IF page.description = "absent" THEN "Not found"
    ELSE IF page.description = "blocks" THEN "texts of p and div"
    ELSE "contents without markup"

\* crawl_story_metadata(url): the whole body is inside try/except Exception
crawl_story_metadata(page) ==
    IF page.fetch # "ok" THEN NoRecord
    ELSE [found |-> TRUE, title |-> title_of(page),
          author |-> author_name_of(page), image_url |-> image_url_of(page),
          description |-> description_of(page)]

\* requests.get(url, timeout=10) ended
FetchStoryPage(page) ==
    /\ meta.pc = "idle"
    /\ meta' = [meta EXCEPT !.pc = "fetched", !.page = page]

\* lines 43-93
ReturnMetadata ==
    /\ meta.pc = "fetched"
    /\ meta' = [meta EXCEPT !.pc = "returned",
                            !.record = crawl_story_metadata(meta.page)]

InitMeta ==
    /\ files = [j \in JobIds |-> MissingFile]
    /\ site = NoSite
    /\ cfg = [resume_mode |-> FALSE, chapters_limit |-> 0]
    /\ SpiderIdle
    /\ WorkersIdle
    /\ listing = NoListing

NextMeta ==
    /\ \/ /\ meta.pc = "idle"
          /\ \E page \in StoryPages : FetchStoryPage(page)
       \/ ReturnMetadata
    /\ UNCHANGED <<files, crawlVars, workerVars, listVars, retry, pool, sync,
                   job>>

SpecMeta == InitMeta /\ [][NextMeta]_vars

\* ----------------------------------------------------- sync_from_list
\* scraper.py: sync_from_list calls sync_story(story_id, start_chapter=None,
\* end_chapter) for every line of the list file, one after the other.
\* get_story_state: None without a client or a row, else the row
get_story_state(story_id) ==
    IF job.configured /\ job.table[story_id] # 0
    THEN [found |-> TRUE, last_crawled_chapter |-> job.table[story_id]]
    ELSE [found |-> FALSE, last_crawled_chapter |-> 0]

start_chapter_FromOne(state) == 1

\* lines 220-228: start_chapter is None
start_chapter(state) ==
    IF state.found /\ state.last_crawled_chapter # 0
    THEN state.last_crawled_chapter + 1
    ELSE 1

\* "last_crawled_chapter": last_ok if last_ok >= 1 else None, given to
\* upsert_story, which does nothing without a client
upsert_story(table, story_id, last_ok) ==
    IF job.configured
    THEN [table EXCEPT ![story_id] = IF last_ok >= 1 THEN last_ok ELSE 0]
    ELSE table

\* the pages sync_from_list meets: every chapter answers 200 with text or
\* does not answer 200
ListPages == [0..MaxSyncEnd -> {"ok", "non200"}]

\* with open(list_file) ...: story_ids; results = []
StartList(story_ids, end, configured) ==
    /\ job.pc = "idle"
    /\ sync.pc = "idle"
    /\ job' = [job EXCEPT !.pc = "running", !.configured = configured,
                          !.story_ids = story_ids, !.end_chapter = end,
                          !.at = 1, !.results = <<>>]
    /\ UNCHANGED sync

\* for story_id in story_ids: sync_story(story_id, None, end_chapter) begins
SyncNext(pages) ==
    /\ job.pc = "running"
    /\ sync.pc = "idle"
    /\ job.at <= Len(job.story_ids)
    /\ LET story_id == job.story_ids[job.at]
       IN  /\ StartSync(start_chapter(get_story_state(story_id)),
                        job.end_chapter, pages)
           /\ job' = [job EXCEPT !.story_id = story_id,
                                 !.before = job.table[story_id],
                                 !.runs = @ + 1]

\* one turn of the for loop of sync_story; a store that is not configured
\* cannot raise
ListChapter(store) ==
    /\ job.pc \in {"running", "calling"}
    /\ store = "supabase_raises" => job.configured
    /\ SyncChapter(store)
    /\ UNCHANGED job

ListExitLoop ==
    /\ job.pc \in {"running", "calling"}
    /\ ExitLoop
    /\ UNCHANGED job

\* lines 247-262 of sync_story inside sync_from_list
ListReturnReport(upsert_ok) ==
    /\ job.pc \in {"running", "calling"}
    /\ ~upsert_ok => job.configured
    /\ ReturnReport(upsert_ok)
    /\ job' = IF upsert_ok
              THEN [job EXCEPT !.table =
                       upsert_story(@, job.story_id, sync.last_ok)]
              ELSE job

\* results.append(sync_story(...)) and the next turn of the loop
AppendResult ==
    /\ job.pc = "running"
    /\ sync.pc = "returned"
    /\ job' = [job EXCEPT
                  !.results = Append(@, [id |-> job.story_id,
                                         report |-> sync.report]),
                  !.at = @ + 1]
    /\ sync' = NoSync

\* sync_story raised: sync_from_list has no handler, the exception leaves it
Propagate ==
    /\ job.pc = "running"
    /\ sync.pc = "raised"
    /\ job' = [job EXCEPT !.pc = "raised"]
    /\ sync' = NoSync

\* return results
ReturnResults ==
    /\ job.pc = "running"
    /\ sync.pc = "idle"
    /\ job.at > Len(job.story_ids)
    /\ job' = [job EXCEPT !.pc = "returned"]
    /\ UNCHANGED sync

InitList ==
    /\ files = [j \in JobIds |-> MissingFile]
    /\ site = NoSite
    /\ cfg = [resume_mode |-> FALSE, chapters_limit |-> 0]
    /\ SpiderIdle
    /\ WorkersIdle
    /\ listing = NoListing

NextList ==
    /\ \/ /\ job.pc = "idle"
          /\ \E story_ids \in SeqsUpTo(StoryUrls, MaxListLen),
                end \in {1, MaxSyncEnd}, configured \in BOOLEAN :
                   StartList(story_ids, end, configured)
       \/ /\ job.pc = "running" /\ sync.pc = "idle"
          /\ \E pages \in ListPages : SyncNext(pages)
       \/ \E store \in {"ok", "es_raises", "supabase_raises"} :
             ListChapter(store)
       \/ ListExitLoop
       \/ \E upsert_ok \in BOOLEAN : ListReturnReport(upsert_ok)
       \/ AppendResult
       \/ Propagate
       \/ ReturnResults
    /\ UNCHANGED <<files, crawlVars, workerVars, listVars, retry, pool, meta>>

SpecList == InitList /\ [][NextList]_vars

\* ------------------------------------- sync_story, call after call
\* sync_story(TheStory, start_chapter=None, end_chapter) called again and
\* again in one environment, each call after the one before has ended.
CallSync(end, pages, configured) ==
    /\ job.pc = "idle"
    /\ sync.pc = "idle"
    /\ job.runs < MaxRuns
    /\ job.runs > 0 => configured = job.configured
    /\ StartSync(start_chapter(get_story_state(TheStory)), end, pages)
    /\ job' = [job EXCEPT !.pc = "calling", !.configured = configured,
                          !.story_id = TheStory,
                          !.before = job.table[TheStory], !.runs = @ + 1]

\* the call returned its dict or raised
EndCall ==
    /\ job.pc = "calling"
    /\ sync.pc \in {"returned", "raised"}
    /\ job' = [job EXCEPT !.pc = "idle"]
    /\ sync' = NoSync

NextResync ==
    /\ \/ /\ job.pc = "idle" /\ sync.pc = "idle"
          /\ \E end \in 0..MaxSyncEnd, pages \in ListPages,
                configured \in BOOLEAN : CallSync(end, pages, configured)
       \/ \E store \in {"ok", "es_raises", "supabase_raises"} :
             ListChapter(store)
       \/ ListExitLoop
       \/ \E upsert_ok \in BOOLEAN : ListReturnReport(upsert_ok)
       \/ EndCall
    /\ UNCHANGED <<files, crawlVars, workerVars, listVars, retry, pool, meta>>

SpecResync == InitList /\ [][NextResync]_vars

\* ------------------------------------------------------ derived history
Answered(req, result) == [req |-> req, result |-> result] \in responses

EmittedUrls(item) == {item.chapters[i].source_url : i \in 1..Len(item.chapters)}

AllEmittedUrls == UNION {EmittedUrls(emitted[i]) : i \in 1..Len(emitted)}

EmittedInRun(r) == {i \in 1..Len(emitted) : emitted[i].run = r}

LedgerChapters == get_completed_chapters(files[TheJob], TheStory)

LedgerStoryDone == is_story_crawled(files[TheJob], TheStory)

\* --------------------------------------------------------------- claims

\* C1: in resume mode no call of _request_chapters dispatches a chapter url
\* that the ledger lists as completed for the story at that moment, and a
\* later run of the job dispatches no chapter url that was completed when
\* the run began.
C1_ResumeNeverRefetchesDone ==
    cfg.resume_mode =>
        \A i \in 1..Len(calls) :
            /\ Range(calls[i].selected) \cap calls[i].completed = {}
            /\ Range(calls[i].selected) \cap startDone = {}

\* a second run found part of the story completed, filtered it out and
\* dispatched the rest
C1_Witness ==
    /\ cfg.resume_mode
    /\ run = 2
    /\ startDone # {}
    /\ \E i \in 1..Len(calls) :
          /\ calls[i].selected # <<>>
          /\ Range(calls[i].links) \cap calls[i].completed # {}

\* C2: once two workers have each completed one mark operation on the same
\* job id, for different marks, the ledger of that job holds both marks.
C2_NoLostUpdate ==
    (/\ AllIdle
     /\ \A w \in Workers : wdone[w] = 1
     /\ \A v, w \in Workers :
           v # w => wop[v].job = wop[w].job /\ wop[v] # wop[w])
        => \A w \in Workers : InLedger(wop[w])

\* C3: once two workers have each completed mark_chapter_completed for the
\* same job id, story url and chapter url, the story's completed_chapters in
\* the ledger lists that chapter url exactly once.
C3_SameChapterRecordedOnce ==
    (/\ AllIdle
     /\ \A w \in Workers : wdone[w] = 1 /\ wop[w].kind = "chapter"
     /\ \A v, w \in Workers : wop[v] = wop[w])
        => \A w \in Workers :
               Count(load_progress(files[wop[w].job]).stories[wop[w].story],
                     wop[w].chapter) = 1

\* C4: whenever a step marks the story completed in the ledger, no chapter
\* request of the story is in flight after that step.
C4_StoryDoneOnlyWhenNothingInFlight ==
    [][(is_story_crawled(files'[TheJob], TheStory) /\ ~LedgerStoryDone)
          => \A r \in inflight' : r.kind # "chapter"]_vars

\* C5: every chapter url in the story's completed set belongs to an emitted
\* story item, and a resumed run dispatches again every selected chapter that
\* no emitted item holds.
C5_LedgerOnlyFinalizedChapters ==
    /\ LedgerChapters \subseteq AllEmittedUrls
    /\ cfg.resume_mode =>
          \A i \in 1..Len(calls) :
              \A u \in Range(Take(calls[i].links, ChapterLimit)) :
                  u \notin AllEmittedUrls => u \in Range(calls[i].selected)

\* C6: for a story with a one-page chapter list and a job in which every
\* request was answered, once the resumed run has nothing left in flight the
\* chapters emitted over the runs are the chapters one uninterrupted run
\* emits: the first ChapterLimit links of the sorted list.
C6_ResumedRunsEmitSameChapters ==
    (/\ cfg.resume_mode
     /\ site.pagination = {}
     /\ run = MaxRuns
     /\ Quiescent
     /\ ~everDropped
     /\ Answered(StoryReq, "ok"))
        => AllEmittedUrls =
               Range(Take(extract_chapter_links(site.first), ChapterLimit))

\* C7: in a non-resume crawl whose single batch got chapters 1..k-1 (k >= 2)
\* and a 404 for the last selected chapter k, once nothing is in flight the
\* story has been emitted with exactly the chapters 1..k-1.
C7_NotFoundFinalizesWithEarlierChapters ==
    (/\ ~cfg.resume_mode
     /\ Quiescent
     /\ Len(calls) = 1
     /\ LET sel == calls[1].selected
            k == Len(sel)
        IN  /\ k >= 2
            /\ \A i \in 1..(k - 1) : Answered(ChapterReq(sel[i], 1), "ok")
            /\ Answered(ChapterReq(sel[k], 1), "none"))
        => \E e \in EmittedInRun(run) :
               [i \in 1..Len(emitted[e].chapters) |->
                   emitted[e].chapters[i].source_url]
                   = SubSeq(calls[1].selected, 1, Len(calls[1].selected) - 1)

\* C8: in the first run of a paginated story, when exactly one linked list
\* page was lost, every other linked list page and every chapter request was
\* answered and the pages that loaded (the story page among them) link a
\* chapter, then once nothing is in flight chapters have been dispatched and
\* the story has been emitted.
C8_FailedListPageDoesNotAbortStory ==
    (/\ run = 1
     /\ Quiescent
     /\ Answered(StoryReq, "ok")
     /\ \E p \in site.pagination :
           /\ Answered(PageReq(p), "none")
           /\ \A q \in site.pagination \ {p} : Answered(PageReq(q), "ok")
           /\ Range(site.first) \cup
                  UNION {Range(site.pages[q]) : q \in site.pagination \ {p}} # {}
     /\ \A r \in responses : r.req.kind = "chapter" => r.result = "ok")
        => /\ \E i \in 1..Len(calls) : calls[i].selected # <<>>
           /\ EmittedInRun(run) # {}

\* the list pages of the story merged in ascending page number
RECURSIVE MergeInPageOrder(_, _)
MergeInPageOrder(anchors, pagesLeft) ==
    IF pagesLeft = {} THEN anchors
    ELSE LET p == CHOOSE x \in pagesLeft : \A y \in pagesLeft : x <= y
         IN  MergeInPageOrder(
                 MergeAnchors(anchors, extract_chapter_links(site.pages[p])),
                 pagesLeft \ {p})

\* the sorted union of the chapter anchors of the first page and of every
\* linked list page
SortedUnion ==
    SortByNum(SelectSeq(
        MergeInPageOrder(extract_chapter_links(site.first), site.pagination),
        HasSlashChuong))

NoDuplicates(seq) == \A i, j \in 1..Len(seq) : i # j => seq[i] # seq[j]

\* C9 as stated: every chapter-link list handed to _request_chapters for a
\* paginated story is in strictly ascending chapter number, without a url
\* twice.
C9_StrictlyAscendingNoDuplicates ==
    site.pagination # {} =>
        \A c \in 1..Len(calls) :
            /\ \A i \in 1..Len(calls[c].links) - 1 :
                  extract_num(calls[c].links[i]) < extract_num(calls[c].links[i + 1])
            /\ NoDuplicates(calls[c].links)

\* C9 amended: every chapter-link list handed to _request_chapters for a
\* paginated story is in non-decreasing chapter number, without a url twice.
C9_SortedNoDuplicates ==
    site.pagination # {} =>
        \A c \in 1..Len(calls) :
            /\ \A i \in 1..Len(calls[c].links) - 1 :
                  extract_num(calls[c].links[i]) <= extract_num(calls[c].links[i + 1])
            /\ NoDuplicates(calls[c].links)

\* a list page arrived that links a chapter the collector already held, or
\* one that links a chapter with a lower number than one already held, and
\* the merged list was handed on
C9_Witness ==
    /\ site.pagination # {}
    /\ \E c \in 1..Len(calls), p \in site.pagination :
          /\ Answered(PageReq(p), "ok")
          /\ calls[c].links # <<>>
          /\ \/ Range(site.pages[p]) \cap Range(site.first) # {}
             \/ \E u \in Range(site.pages[p]), v \in Range(site.first) :
                   /\ HasSlashChuong(u) /\ HasSlashChuong(v)
                   /\ extract_num(u) < extract_num(v)
                   /\ Len(calls[c].links) >= 2

\* C10: when every linked list page of a paginated story was answered, the
\* list of chapter urls dispatched last for the story is the first
\* ChapterLimit entries of the sorted union of the anchors of all pages,
\* whatever the arrival order of the list pages.
C10_DispatchIndependentOfArrivalOrder ==
    (/\ site.pagination # {}
     /\ ~cfg.resume_mode
     /\ \A p \in site.pagination : Answered(PageReq(p), "ok"))
        => /\ calls # <<>>
           /\ calls[Len(calls)].selected = Take(SortedUnion, ChapterLimit)

\* ---------------------------------------------------------------- C11
\* sorted by chapter_number, smaller numbers first, equal numbers allowed
NonDecreasing(chapters) ==
    \A i, j \in 1..Len(chapters) :
        i < j => chapters[i].chapter_number <= chapters[j].chapter_number

\* the chapter list _finalize_story builds when the chapters of a batch
\* complete in the order they were dispatched
InDispatchOrder(item) ==
    finalize_chapters([i \in 1..Len(item.dispatched) |->
                          ChapterOf(item.dispatched[i])])

\* C11: the chapter list of every emitted story is in non-decreasing
\* chapter-number order and is the list that in-order completion of the
\* story's chapter fetches produces, whatever order they completed in.
C11_EmittedListIndependentOfCompletionOrder ==
    \A i \in 1..Len(emitted) :
        /\ NonDecreasing(emitted[i].chapters)
        /\ emitted[i].chapters = InDispatchOrder(emitted[i])

SpecifiedAsDropped(c) ==
    \/ HasSlashTrang(c.source_url)
    \/ (c.chapter_number = 0 /\ ~c.title_isdigit)

\* C18: the chapters of every emitted story are exactly the accumulated
\* chapters whose source url holds no /trang- and that are not number 0
\* with a non-numeric title.
C18_FinalizeDropsListPagesAndUnnumbered ==
    \A i \in 1..Len(emitted) :
        Range(emitted[i].chapters) =
            {c \in Range(emitted[i].fetched) : ~SpecifiedAsDropped(c)}

\* ---------------------------------------------------------------- C13
\* C13: with a page limit K below the number of listing pages, story links
\* were read from at most K listing pages, and once the walker has counted
\* more than K pages no listing request is pending.
C13_PageLimitBoundsExtraction ==
    (listing.listing_pages > 0 /\ listing.listing_pages < listing.last)
        => /\ Len(walker.extracted) <= listing.listing_pages
           /\ (walker.pages_crawled > listing.listing_pages
                  => walker.pending = NoLink)

\* page K+1 arrived and was ignored after K pages were read
C13_Witness ==
    /\ listing.listing_pages > 0
    /\ listing.listing_pages < listing.last
    /\ walker.pages_crawled = listing.listing_pages + 1
    /\ Len(walker.extracted) = listing.listing_pages
    /\ walker.pending = NoLink

\* ---------------------------------------------------------------- C14
\* C14: no story url occurs twice among the story requests the walker
\* yielded in a run.
C14_StoryEnqueuedOnce ==
    \A i, j \in 1..Len(walker.yielded) :
        walker.yielded[i] = walker.yielded[j] => i = j

\* a story that two listing pages link was read on both and yielded
C14_Witness ==
    \E u \in Range(walker.yielded) :
        \E p, q \in Range(walker.extracted) :
            /\ p # q
            /\ u \in Range(listing.pages[p].stories)
            /\ u \in Range(listing.pages[q].stories)

\* ---------------------------------------------------------------- C15
\* C15: the walker never holds more story urls than max_stories, and a step
\* after which it holds max_stories of them requests no listing page.
C15_MaxStoriesBoundsWalk ==
    /\ [](Len(walker.collected) <= MaxStoriesOf(listing))
    /\ [][Len(walker'.collected) >= MaxStoriesOf(listing)
            => walker'.requested = walker.requested]_vars

\* max_stories was reached on a page that links a next page, which was
\* not requested
C15_Witness ==
    /\ Len(walker.collected) = MaxStoriesOf(listing)
    /\ listing.listing_pages = 0
    /\ walker.extracted # <<>>
    /\ walker.extracted[Len(walker.extracted)] < listing.last
    /\ walker.pending = NoLink
    /\ walker.requested = <<>>

\* ---------------------------------------------------------------- C16
\* the category links of ul.pagination hold a page number above cur_page
HasGreaterCandidate(page, cur_page) ==
    \E i \in 1..Len(page.pagination) :
        page.pagination[i].cat /\ page.pagination[i].num > cur_page

\* C16: whenever _find_next_page ran on a page whose category pagination
\* links hold no page number above the current page, it returned what
\* _find_next_fallback finds on that page.
C16_FallbackWhenNoGreaterCandidate ==
    \A i \in 1..Len(walker.decisions) :
        LET d == walker.decisions[i]
        IN  ~HasGreaterCandidate(d.page, d.cur)
                => d.next = find_next_fallback(d.page)

\* ---------------------------------------------------------------- C17
\* the bound the specification states for a chapter limit L
StatedBound(L) ==
    IF L > 0 THEN Min(L, MAX_CHAPTERS_PER_STORY) ELSE MAX_CHAPTERS_PER_STORY

\* C17: every call of _request_chapters selects, and the chapter requests
\* in flight are for, at most StatedBound(chapters_limit) urls, all of them
\* among the first StatedBound(chapters_limit) entries of the sorted list.
C17_DispatchWithinLimit ==
    LET N == StatedBound(cfg.chapters_limit)
    IN  /\ \A c \in 1..Len(calls) :
              /\ Len(calls[c].selected) <= N
              /\ Range(calls[c].selected) \subseteq Range(Take(calls[c].links, N))
        /\ Cardinality({r \in inflight : r.kind = "chapter"}) <= N
        /\ \A r \in inflight : r.kind = "chapter" =>
              \E c \in 1..Len(calls) : r.url \in Range(Take(calls[c].links, N))

\* a list longer than the ceiling under a limit above the ceiling: exactly
\* MAX_CHAPTERS_PER_STORY requests are in flight
C17_Witness ==
    /\ cfg.chapters_limit > MAX_CHAPTERS_PER_STORY
    /\ calls # <<>>
    /\ Len(calls[1].links) > MAX_CHAPTERS_PER_STORY
    /\ Cardinality({r \in inflight : r.kind = "chapter"}) = MAX_CHAPTERS_PER_STORY

\* ---------------------------------------------------------------- C19
\* the url of a mark is listed exactly once in the progress file
ListedOnce(file, op) ==
    IF op.kind = "story"
    THEN Count(load_progress(file).completed_stories, op.story) = 1
    ELSE Count(load_progress(file).stories[op.story], op.chapter) = 1

\* C19: when the same mark is made twice in a row on a progress file the
\* tracker can read (absent, not JSON, or a document it wrote), the file
\* after the second mark equals the file after the first and lists the url
\* exactly once.
C19_MarkTwiceSameAsOnce ==
    \A i \in 1..Len(wlog) - 1 :
        (/\ wlog[i].op = wlog[i + 1].op
         /\ IsMark(wlog[i].op)
         /\ ~wlog[i].raised)
            => /\ wlog[i + 1].after = wlog[i].after
               /\ ListedOnce(wlog[i + 1].after, wlog[i].op)

\* a chapter mark that added its url was repeated
C19_Witness ==
    \E i \in 1..Len(wlog) - 1 :
        /\ wlog[i].op = wlog[i + 1].op
        /\ wlog[i].op.kind = "chapter"
        /\ ~wlog[i].raised
        /\ wlog[i].after # wlog[i].before
        /\ files[TheJob] = wlog[i + 1].after

\* ---------------------------------------------------------------- C20
\* C20: a ledger call on a progress file that is missing or corrupt does
\* not raise; a read reports nothing completed and a mark leaves a
\* document that lists its url.
C20_MissingOrCorruptFailsOpen ==
    \A i \in 1..Len(wlog) :
        wlog[i].before.kind \in
            {"missing", "empty", "corrupt", "undecodable", "notobject"}
            => /\ ~wlog[i].raised
               /\ ~wlog[i].crawled
               /\ wlog[i].chapters = {}
               /\ IsMark(wlog[i].op) => ListedOnce(wlog[i].after, wlog[i].op)

\* ---------------------------------------------------------------- C21
\* C21: with the processes of a job running one after the other and being
\* killed at any point, whenever no mark operation is under way every mark
\* that returned is still reported completed by the ledger.
C21_ReturnedMarksSurviveRestarts ==
    AllIdle => \A w \in Workers : wdone[w] >= 1 => InLedger(wop[w])

\* ---------------------------------------------------------------- C22
\* the worker that takes the step
Stepping(w) == wpc'[w] # wpc[w]

\* C22: a step of a ledger operation under job id A leaves the progress
\* file of every other job id B as it was, whatever the other workers are
\* in the middle of.
C22_OtherJobsUntouched ==
    [][\A w \in Workers : Stepping(w) =>
          \A B \in JobIds : B # wop'[w].job => files'[B] = files[B]]_vars

\* two workers are inside mark operations of different jobs and one of the
\* files has been written
C22_Witness ==
    /\ \E v, w \in Workers :
          /\ wop[v].job # wop[w].job
          /\ wdone[v] = 1
          /\ wpc[w] = "opened"
          /\ InLedger(wop[v])
    /\ \A j \in JobIds : files[j].kind \in {"json", "empty"}

\* ---------------------------------------------------------------- C23
\* a Retry-After header that is an integer n > 0 (also one beyond the range
\* of time.sleep)
PositiveInteger(header) ==
    \/ header.kind = "int" /\ header.secs > 0
    \/ header.kind = "hugeint"

\* C23: when a 503 response carries Retry-After: n with an integer n > 0,
\* the response is handed on for retry no earlier than n seconds after it
\* arrived, and the next attempt is sent no earlier than that.
C23_PauseBeforeNextAttempt ==
    (/\ retry.status = 503
     /\ PositiveInteger(retry.header)
     /\ \/ retry.phase = "handed"
        \/ retry.phase = "downloading" /\ retry.attempt > 1)
        => /\ retry.header.kind = "int"
           /\ retry.waited >= retry.header.secs

\* a second attempt started right when the pause of MaxSeconds seconds ended
C23_Witness ==
    /\ retry.phase = "downloading"
    /\ retry.attempt > 1
    /\ retry.status = 503
    /\ retry.header = IntHeader(MaxSeconds)
    /\ retry.waited = MaxSeconds

\* ---------------------------------------------------------------- C24
\* a Retry-After header that parses as integer or float seconds above zero
ParsablePositive(header) ==
    \/ header.kind = "int" /\ header.secs > 0
    \/ header.kind = "float"

\* C24: a response with status 502, 503, 504, 522, 524 or 408 and a
\* parsable positive Retry-After header is handed on only after a pause.
C24_EveryRetryableStatusPauses ==
    (/\ retry.phase = "handed"
     /\ retry.status \in {502, 503, 504, 522, 524, 408}
     /\ ParsablePositive(retry.header))
        => retry.paused > 0

\* ---------------------------------------------------------------- C25
\* a Retry-After value that parses neither as integer nor as float seconds
Unparsable(header) == header.kind \in {"empty", "text", "badbytes"}

\* C25: on a response whose Retry-After value parses neither as integer
\* nor as float seconds, process_response does not raise, does not pause
\* and returns the response it was given.
C25_UnparsableHeaderIgnored ==
    (retry.phase \in {"handed", "failed"} /\ Unparsable(retry.header)) =>
        /\ retry.phase = "handed"
        /\ retry.paused = 0
        /\ retry.waited = 0
        /\ retry.returned = [status |-> retry.status, header |-> retry.header]

\* a 503 with a Retry-After that is no number went through process_response
C25_Witness ==
    /\ retry.phase = "handed"
    /\ retry.status = 503
    /\ retry.header.kind = "text"
    /\ retry.attempt > 1

\* ---------------------------------------------------------------- C26
\* C26: in a category crawl at most CONCURRENT_REQUESTS_PER_DOMAIN (4)
\* requests to the target host are being downloaded and at most
\* CONCURRENT_REQUESTS (8) requests are in the downloader, however many
\* stories have chapter requests under way.
C26_CapsHoldAcrossStories ==
    /\ Total(pool.transferring) <= 4
    /\ InDownloader <= 8

\* both caps are reached with chapter requests of two stories under way
\* and more requests waiting in the scheduler
C26_Witness ==
    /\ Total(pool.transferring) = 4
    /\ InDownloader = 8
    /\ Total(pool.queued) > 0
    /\ \E s, t \in StoryUrls :
          /\ s # t
          /\ pool.stage[s] = "chapters" /\ pool.transferring[s] > 0
          /\ pool.stage[t] = "chapters" /\ pool.transferring[t] > 0

\* ---------------------------------------------------------------- C27
\* a chapter request of this run ended without a chapter page
ChapterFailed ==
    \E r \in responses : r.req.kind = "chapter" /\ r.result = "none"

\* C27: in resume mode, once a chapter selected in the run has failed
\* (NotFound or retries exhausted), the ledger does not hold the story as
\* completed: the run has not marked it and does not mark it later.
C27_FailedChapterLeavesStoryOpen ==
    (cfg.resume_mode /\ ChapterFailed) => ~LedgerStoryDone

\* ---------------------------------------------------------------- C28
\* the story requests a step of the Listing Walker yields
NewlyYielded ==
    {walker'.yielded[i] : i \in Len(walker.yielded) + 1..Len(walker'.yielded)}

\* a step in which the story page is answered to parse_story
StoryPageParsed ==
    /\ StoryReq \in inflight
    /\ [req |-> StoryReq, result |-> "ok"] \in responses' \ responses

\* C28: in resume mode no step of the Listing Walker yields a request for
\* a story url of the job's completed stories, and parse_story on the page
\* of a completed story yields no chapter-list and no chapter request.
C28_CompletedStorySkipped ==
    [][cfg.resume_mode =>
          /\ \A u \in NewlyYielded : ~is_story_crawled(files[TheJob], u)
          /\ (StoryPageParsed /\ LedgerStoryDone) =>
                 /\ inflight' = inflight \ {StoryReq}
                 /\ calls' = calls
                 /\ collector' = collector
                 /\ batches' = batches]_vars

\* a listing page that lists the completed story was read without a request
\* for it, and a later run of the job on that story's page (which links
\* list pages or chapters) ended with parse_story and no further request
C28_Witness ==
    /\ LedgerStoryDone
    /\ walker.extracted # <<>>
    /\ TheStory \in Range(walker.collected)
    /\ TheStory \notin Range(walker.yielded)
    /\ run = 2
    /\ [req |-> StoryReq, result |-> "ok"] \in responses
    /\ site.pagination # {}
    /\ site.first # <<>>
    /\ inflight = {}
    /\ calls = <<>>

\* ---------------------------------------------------------------- C29
\* C29: a chapter page without body text is not appended to the chapters
\* accumulated for the story and, in resume mode, its url is not marked
\* completed in the ledger.
C29_NoBodyNotAppendedNotMarked ==
    /\ \A b \in 1..Len(batches) :
          \A i \in 1..Len(batches[b].chapters) :
              batches[b].chapters[i].content # ""
    /\ cfg.resume_mode => LedgerChapters \cap site.no_body = {}

\* ---------------------------------------------------------------- C30
\* the fetch of chapter number n returns no chapter
Miss(n) == ~crawl_chapter(sync.pages[n]).found

C31_FailureDoesNotAbortList ==
    job.pc \in {"returned", "raised"}
        => \A i \in 1..Len(job.story_ids) :
              \E k \in 1..Len(job.results) :
                  job.results[k].id = job.story_ids[i]

\* ---------------------------------------------------------------- C40
\* C40: over the sync_story calls that read start_chapter from the stories
\* table, no call fetches a chapter number at or below the
\* last_crawled_chapter stored when it began, and no step lowers the stored
\* last_crawled_chapter of a story.
C40_StoredChapterNeverDecreases ==
    /\ [](job.pc = "calling"
            => \A i \in 1..Len(sync.requested) : sync.requested[i] > job.before)
    /\ [][\A s \in StoryUrls : job'.table[s] >= job.table[s]]_vars

\* a later call for a story with stored chapters fetched further chapters
\* and stored a higher last_crawled_chapter
C40_Witness ==
    /\ job.pc = "calling"
    /\ sync.pc = "returned"
    /\ job.before >= 1
    /\ sync.requested # <<>>
    /\ sync.requested[1] = job.before + 1
    /\ job.table[TheStory] > job.before

\* ---------------------------------------------------------------- C32
\* the sentinel of each field, and the value parsed from a page that has it
Sentinel ==
    [title |-> "Title not found", image |-> "Image URL not found",
     author |-> "Author not found", description |-> "Not found"]

MissingFields(page) ==
    {f \in {"title", "author", "description"} : page[f] = "absent"}
        \cup (IF page.image \in {"absent", "nosrc"} THEN {"image"} ELSE {})

FieldOf(record, f) == IF f = "image" THEN record.image_url ELSE record[f]

\* C32: when crawl_story_metadata has returned for a story page fetched with
\* status 200, it returned a record, each field the page misses holds its
\* "not found" sentinel and every other field holds a value that is no
\* sentinel.
C32_MissingFieldsGetSentinels ==
    (meta.pc = "returned" /\ meta.page.fetch = "ok")
        => /\ meta.record.found
           /\ \A f \in DOMAIN Sentinel :
                 (f \in MissingFields(meta.page))
                     <=> (FieldOf(meta.record, f) = Sentinel[f])

\* a page with a title and no author, image or description was parsed
C32_Witness ==
    /\ meta.pc = "returned"
    /\ meta.page.fetch = "ok"
    /\ MissingFields(meta.page) = {"author", "image", "description"}
    /\ meta.record.author = "Author not found"
    /\ meta.record.title # "Title not found"

\* ---------------------------------------------------------------- C33
\* C33: in a run of a paginated story whose list-page requests are all
\* answered, _request_chapters is eventually called, whatever set of page
\* numbers the story page links.
C33_CountdownReachesDispatch ==
    (phase = "running") ~> (calls # <<>>)

\* ---------------------------------------------------------------- C34
\* C34: in every run _request_chapters is called at most once and the story
\* is emitted at most once.
C34_DispatchedOncePerRun ==
    /\ Len(calls) <= 1
    /\ Cardinality(EmittedInRun(run)) <= 1

\* ---------------------------------------------------------------- C35
\* C35: with a page limit K the walker fetches at most K listing pages in a
\* run: the start url and the next-page requests the scheduler took are at
\* most K together.
C35_AtMostKListingFetches ==
    (listing.listing_pages > 0 /\ phase = "running")
        => 1 + Len(walker.requested) <= listing.listing_pages

\* ---------------------------------------------------------------- C36
\* C36: every url _find_next_page returned is the url of a page with a
\* number above the page it was found on.
C36_NextPageStrictlyGreater ==
    \A i \in 1..Len(walker.decisions) :
        LET d == walker.decisions[i]
        IN  d.next # NoLink => CurPage(d.next) > d.cur

\* ---------------------------------------------------------------- C37
\* C37: in resume mode, whenever the ledger holds the story as completed,
\* every chapter url among the first ChapterLimit of the story's sorted
\* links is in the story's completed chapters.
C37_CompletedStoryHasSelectedChapters ==
    (cfg.resume_mode /\ LedgerStoryDone)
        => Range(Take(SortedUnion, ChapterLimit)) \subseteq LedgerChapters

\* ---------------------------------------------------------------- C38
\* the story urls a step of the Listing Walker adds to _collected_story_urls
NewlyCollected ==
    {walker'.collected[i] :
        i \in Len(walker.collected) + 1..Len(walker'.collected)}

\* C38: with resume disabled no step changes the progress file of any job
\* id, every story url the walker collects is requested, parse_story goes on
\* to the chapter list of a story the ledger holds as completed, and every
\* _request_chapters call selects the first ChapterLimit links whatever the
\* ledger holds.
C38_NoResumeLeavesLedgerAlone ==
    [][~cfg.resume_mode =>
          /\ files' = files
          /\ NewlyYielded = NewlyCollected
          /\ StoryPageParsed => (calls' # calls \/ collector'.active)
          /\ \A i \in 1..Len(calls') :
                calls'[i].selected = Take(calls'[i].links, ChapterLimit)]_vars

\* with the story and its chapter 1 completed in the ledger, a run without
\* resume fetched chapter 1 and emitted the story; the ledger is as it was
C38_Witness ==
    /\ ~cfg.resume_mode
    /\ files[TheJob] = JsonFile(DoneProgress)
    /\ emitted # <<>>
    /\ PlainUrl(1) \in EmittedUrls(emitted[1])

\* ---------------------------------------------------------------- C39
\* C39: a story none of whose pages links a chapter is never emitted and
\* never held as completed by the ledger, and in resume mode every step of
\* the Listing Walker that collects its url yields a request for it.
C39_EmptyStoryStaysOpen ==
    /\ [](SortedUnion = <<>> => (emitted = <<>> /\ ~LedgerStoryDone))
    /\ [][(SortedUnion = <<>> /\ cfg.resume_mode /\ TheStory \in NewlyCollected)
             => TheStory \in NewlyYielded]_vars

\* a resumed run called _request_chapters with no link; the next run of the
\* job walked the listing and requested the story again
C39_Witness ==
    /\ cfg.resume_mode
    /\ SortedUnion = <<>>
    /\ run = 2
    /\ calls # <<>>
    /\ calls[1].run = 1
    /\ calls[1].links = <<>>
    /\ TheStory \in Range(walker.yielded)

====
